---- MODULE Spec2Model ----
(***************************************************************************)
(* server_monitor: the `sm` command line tool keeps a JSON manifest of     *)
(* services and drives launchd through launchctl.  This module models      *)
(*   - cli/src/lib/plist-from-json.js  (descriptor rendering, atomic write)*)
(*   - cli/src/lib/launchd.js          (supervisor client)                 *)
(*   - cli/src/lib/config.js           (manifest)                          *)
(*   - cli/src/commands/*.js           (add, start, stop, restart, remove) *)
(* launchctl itself is the environment: every control-plane call may      *)
(* return nonzero, and the supervised process may exit or be respawned by  *)
(* launchd between (and while waiting inside) commands.                    *)
(*   Spec         one managed service under the commands                   *)
(*   SpecDirect   the same with removeCommand of commands/remove.js        *)
(*   SpecWrite    writePlistAtomic step by step                            *)
(*   SpecManifest the manifest under the functions of config.js            *)
(*   SpecNames    name resolution in the commands that take a name         *)
(*   SpecAll      start --all and restart --all over several services      *)
(*   SpecSave     saveConfig step by step beside a second instance         *)
(*   SpecGui      the menu bar application and its copy of the manifest    *)
(*   SpecHealth   getServiceHealth over every outcome of its probes        *)
(*   SpecStatus   getServiceStatus over job tables and identifiers         *)
(*   SpecEscape   escapeXml and the parser of the migration tool           *)
(*   SpecRender   generatePlistFromService called on one service object    *)
(*   SpecList     the job table read by the tool and by the application    *)
(*   SpecMon      the loop of scripts/monitor.sh and the application's check *)
(*   SpecGuiWrite the application's writePlistAtomically and saveServices  *)
(*   SpecTwo      two instances of the tool and the two manifests          *)
(***************************************************************************)
EXTENDS Integers, Sequences, FiniteSets, TLC

\* ---------------------------------------------------------------- bounds
\* distinct command lines a manifest record may carry
MaxCmd == 1
\* process ids handed out by the kernel, reused round-robin
MaxPid == 2
\* entries a manifest may hold
MaxEntries == 2
\* services of the manifest a command with --all runs over
MaxBatch == 2

VARIABLES
  rec,      \* manifest entry of the service: <<>> or <<record>>
  src,      \* descriptor in settings.plistDir: <<>> or <<document>>
  dst,      \* descriptor in settings.launchAgentsDir: <<>> or <<document>>
  loaded,   \* launchd knows the label
  keep,     \* the KeepAlive setting launchd loaded with the label
  pid,      \* pid of the supervised process, 0 when not running
  op,       \* last command run ("env" after an environment step)
  report,   \* what that command reported on the terminal
  pre,      \* getServiceStatus() as seen at the start of that command
  verbs,    \* control-plane calls of that command, in order, with outcome
  writes,   \* writePlistAtomic calls of that command, in order, with outcome
  err,      \* the error that command caught: <<>> or <<kind, cause>>
  opts,     \* the options that command was given
  before,   \* which descriptor files existed when removeCommandDirect began, else <<>>
  fdest,    \* writePlistAtomic: file at destPath, <<>> or <<bytes>>
  ftemp,    \* writePlistAtomic: file at tempPath, <<>> or <<bytes>>
  wpc,      \* writePlistAtomic: position of the process in the function
  wcontent, \* writePlistAtomic: the content argument
  wold,     \* file at destPath when the last write began
  mfile,    \* services.json at CONFIG_PATH: <<>> or <<[fmt, services]>>
  appSupport, \* a services.json exists in ~/Library/Application Support
  plists,   \* identifiers that have descriptor files
  logfiles, \* identifiers that have log files
  mop,      \* last operation on the manifest
  marg,     \* the name it was given
  mres,     \* what it reported
  mhit,     \* the entry the name resolved to, or the one given to add: <<>> or <<entry>>
  mverbs,   \* whether it made control-plane calls
  bsvc,     \* --all: the services, each with its record, files and launchd state
  bcmd,     \* --all: the command that runs
  bpc,      \* --all: position of the command: "idle", "loop", "done", "raised"
  bi,       \* --all: index of the service the loop is at
  bres,     \* --all: what was reported for each service so far
  sfile,    \* saveConfig: the bytes of services.json at CONFIG_PATH, <<>> or <<text>>
  spc,      \* saveConfig: position of the writing process in writeFileSync
  stext,    \* saveConfig: the text JSON.stringify returned
  sseen,    \* what the last loadConfig of a second instance read and returned
  gfile,    \* menu bar application: services.json in Application Support, <<>> or <<services>>
  gmem,     \* menu bar application: its services array in memory
  gop,       \* menu bar application: the last operation, its target and whether it saved
  hsvc,    \* health: the service evaluated, its port (0 for none) and its healthCheck URL ("" for none)
  hlaunchd, \* health: the launchd status handed to getServiceHealth
  hprobe,  \* health: what lsof, fetch and curl did during the last evaluation
  hres,    \* health: the record the last evaluation returned, <<>> for none
  hthrew,   \* health: the last evaluation threw
  jobs,    \* status: the jobs launchd knows, label to pid (0 for none) and last exit status
  qid,     \* status: the identifier getServiceStatus is called with
  qres,    \* status: what the call returned, <<>> before it
  qthrew,   \* status: the call threw
  xin,     \* escaping: the string given to escapeXml
  xesc,    \* escaping: the text between <string> and </string>, <<>> before the call
  xdec,    \* escaping: what parseString returned for it
  xpc,      \* escaping: "in", "escaped" or "parsed"
  rval,    \* rendering: the service as it was read from the manifest
  robj,    \* rendering: the service object the calls are given
  rset,    \* rendering: the settings of the last call
  rout,    \* rendering: the document the last call returned, <<>> for none
  rerr,    \* rendering: the message of the error the last call threw, "" for none
  rcalls,  \* rendering: calls made with the object so far
  rvia,    \* rendering: what made the last call, "render" or "install"
  rswift,  \* rendering: the document the application rendered for the service, <<>> or <<document>>
  ljobs,   \* listing: the jobs launchd knows, label to pid (0 for none) and last exit status
  lprefix, \* listing: settings.identifierPrefix
  lq,      \* listing: the last query of the job table, what it asked for and what it returned
  mup,     \* monitor: the services whose check succeeds now
  mstate,  \* monitor.sh: service_states
  mpc,     \* monitor.sh: the check of the loop body that comes next
  mlast,   \* monitor.sh: what the last check did, its alert and whether it restarted
  gmon,    \* application: lastStatuses of the first service, and whether the last check notified
  pfile,   \* two instances: services.json at CONFIG_PATH, <<>> or <<manifest>>
  afile,   \* two instances: services.json in Application Support, <<>> or <<manifest>>
  procs    \* two instances: each instance's place in addService, the config it holds, its service

lifeVars == <<rec, src, dst, loaded, keep, pid, op, report, pre, verbs, writes, err,
             opts, before>>
writeVars == <<fdest, ftemp, wpc, wcontent, wold>>
cfgVars == <<mfile, appSupport, plists, logfiles, mop, marg, mres, mhit, mverbs>>
batchVars == <<bsvc, bcmd, bpc, bi, bres>>
saveVars == <<sfile, spc, stext, sseen>>
guiVars == <<gfile, gmem, gop>>
healthVars == <<hsvc, hlaunchd, hprobe, hres, hthrew>>
statusVars == <<jobs, qid, qres, qthrew>>
escVars == <<xin, xesc, xdec, xpc>>
renderVars == <<rval, robj, rset, rout, rerr, rcalls, rvia, rswift>>
listVars == <<ljobs, lprefix, lq>>
monVars == <<mup, mstate, mpc, mlast, gmon>>
twoVars == <<pfile, afile, procs>>
extVars == <<saveVars, guiVars, healthVars, statusVars, escVars, renderVars, listVars,
             monVars, twoVars>>
coreVars == <<lifeVars, writeVars, cfgVars, batchVars>>
notSave == <<coreVars, guiVars, healthVars, statusVars, escVars, renderVars, listVars,
             monVars, twoVars>>
notGui == <<coreVars, saveVars, healthVars, statusVars, escVars, renderVars, listVars,
             monVars, twoVars>>
notHealth == <<coreVars, saveVars, guiVars, statusVars, escVars, renderVars, listVars,
             monVars, twoVars>>
notStatus == <<coreVars, saveVars, guiVars, healthVars, escVars, renderVars, listVars,
             monVars, twoVars>>
notEsc == <<coreVars, saveVars, guiVars, healthVars, statusVars, renderVars, listVars,
             monVars, twoVars>>
notRender == <<coreVars, saveVars, guiVars, healthVars, statusVars, escVars, listVars,
             monVars, twoVars>>
notList == <<coreVars, saveVars, guiVars, healthVars, statusVars, escVars, renderVars,
             monVars, twoVars>>
notMon == <<coreVars, saveVars, guiVars, healthVars, statusVars, escVars, renderVars,
            listVars, twoVars>>
notTwo == <<coreVars, saveVars, guiVars, healthVars, statusVars, escVars, renderVars,
            listVars, monVars>>
vars == <<rec, src, dst, loaded, keep, pid, op, report, pre, verbs, writes, err,
          opts, before, fdest, ftemp, wpc, wcontent, wold,
          mfile, appSupport, plists, logfiles, mop, marg, mres, mhit, mverbs,
          bsvc, bcmd, bpc, bi, bres,
          sfile, spc, stext, sseen,
          gfile, gmem, gop,
          hsvc, hlaunchd, hprobe, hres, hthrew,
          jobs, qid, qres, qthrew,
          xin, xesc, xdec, xpc,
          rval, robj, rset, rout, rerr, rcalls, rvia, rswift,
          ljobs, lprefix, lq,
          mup, mstate, mpc, mlast, gmon,
          pfile, afile, procs>>

\* ------------------------------------------------- manifest and documents
NoFile == <<>>
NoRec == <<>>
NoErr == <<>>

\* a services.json entry as add.js builds it, reduced to what is rendered
Records == [cmd : 1..MaxCmd, enabled : BOOLEAN, keepAlive : BOOLEAN]

\* generatePlistFromService: the descriptor keys derived from a record
generatePlistFromService(r) ==
  [ProgramArguments |-> r.cmd,
   RunAtLoad |-> IF r.enabled # FALSE THEN "true" ELSE "false",
   KeepAlive |-> IF r.keepAlive THEN "true" ELSE "false"]

Documents == {generatePlistFromService(r) : r \in Records}

\* ------------------------------------------------------------- the world
\* the part of the state a library function reads and changes, with the
\* calls made so far by the running command; lastPid is the pid the
\* supervised process had last.  Every function below returns the set of
\* worlds it can end in: each control-plane call and each file write may fail
World ==
  [loaded |-> loaded, keep |-> keep, pid |-> pid, lastPid |-> pid,
   src |-> src, dst |-> dst,
   verbs |-> <<>>, writes |-> <<>>, err |-> NoErr, ok |-> TRUE]

\* getServiceStatus: launchctl list <label>
getServiceStatus(w) ==
  [loaded |-> w.loaded, running |-> w.loaded /\ w.pid # 0,
   pid |-> IF w.loaded THEN w.pid ELSE 0]

\* the kernel hands a new process a pid different from its predecessor's
Spawn(w) ==
  LET p == (w.lastPid % MaxPid) + 1
  IN [w EXCEPT !.pid = p, !.lastPid = p]

\* what a control-plane call needs to be able to return zero
CanSucceed(w, v, arg) ==
  CASE v = "bootstrap" -> ~w.loaded /\ w.dst # NoFile
    [] v = "load"      -> ~w.loaded /\ w.dst # NoFile
    [] v = "bootout"   -> w.loaded
    [] v = "unload"    -> w.loaded /\ w.dst # NoFile
    [] v = "kickstart" -> w.loaded
    [] v = "start"     -> w.loaded
    [] v = "stop"      -> w.loaded
    [] v = "kill"      -> arg # 0 /\ w.pid = arg

\* what a control-plane call does when it returns zero
Effect(w, v) ==
  CASE v \in {"bootstrap", "load"} ->
         LET w1 == [w EXCEPT !.loaded = TRUE, !.keep = (w.dst[1].KeepAlive = "true")]
         IN IF w.dst[1].RunAtLoad = "true" \/ w.dst[1].KeepAlive = "true"
            THEN Spawn(w1) ELSE w1
    [] v \in {"bootout", "unload"} ->
         [w EXCEPT !.loaded = FALSE, !.keep = FALSE, !.pid = 0]
    [] v = "kickstart" -> Spawn(w)
    [] v = "start" -> IF w.pid = 0 THEN Spawn(w) ELSE w
    [] v \in {"stop", "kill"} -> [w EXCEPT !.pid = 0]

\* execSync of one control-plane command line: it returns zero and has its
\* effect, or it returns nonzero (execSync throws) and changes nothing
execSync(w, v, arg) ==
  {[w EXCEPT !.verbs = Append(@, <<v, FALSE>>), !.ok = FALSE]}
  \cup
  (IF CanSucceed(w, v, arg)
   THEN {[Effect(w, v) EXCEPT !.verbs = Append(@, <<v, TRUE>>), !.ok = TRUE]}
   ELSE {})

\* an exception leaving a function: the world as it is, with the error set
Throw(w, kind, cause) == [w EXCEPT !.err = <<kind, cause>>, !.ok = FALSE]

\* writePlistAtomic seen from its caller: the file at loc is replaced, or
\* an error is thrown and the file is as it was
writePlistAtomic(w, loc, content) ==
  {[w EXCEPT !.writes = Append(@, <<loc, TRUE>>), !.ok = TRUE,
             !.src = IF loc = "src" THEN <<content>> ELSE @,
             !.dst = IF loc = "dst" THEN <<content>> ELSE @],
   Throw([w EXCEPT !.writes = Append(@, <<loc, FALSE>>)], "write", loc)}

\* the test for a command is lost: every record is rendered
hasCommand_any(r) == TRUE

\* generatePlistFromService throws for a record without a command (0)
hasCommand(r) == r.cmd # 0

\* the error of the second write is caught and dropped
generateAndWritePlist_swallow(w, r) ==
  LET plistContent == generatePlistFromService(r)
      forget(w2) == {[w2 EXCEPT !.err = NoErr, !.ok = TRUE]}
      second(w1) == IF ~w1.ok THEN {w1}
                    ELSE UNION {forget(x) : x \in writePlistAtomic(w1, "dst", plistContent)}
  IN IF ~hasCommand(r) THEN {Throw(w, "Service must have a command", "render")}
     ELSE UNION {second(x) : x \in writePlistAtomic(w, "src", plistContent)}

\* generateAndWritePlist: render, write the source copy, then the active copy
generateAndWritePlist(w, r) ==
  LET plistContent == generatePlistFromService(r)
      second(w1) == IF ~w1.ok THEN {w1} ELSE writePlistAtomic(w1, "dst", plistContent)
  IN IF ~hasCommand(r) THEN {Throw(w, "Service must have a command", "render")}
     ELSE UNION {second(x) : x \in writePlistAtomic(w, "src", plistContent)}

\* no fallback: a failed bootstrap is thrown at once
installService_noFallback(w, r) ==
  LET bootstrapDone(w3) == IF w3.ok THEN {w3}
                           ELSE {Throw(w3, "Failed to load service", "bootstrap")}
      bootoutDone(w2) == UNION {bootstrapDone(x) : x \in execSync(w2, "bootstrap", 0)}
      written(w1) == IF w1.err # NoErr THEN {w1} ELSE UNION {bootoutDone(x) : x \in execSync(w1, "bootout", 0)}
  IN UNION {written(x) : x \in generateAndWritePlist(w, r)}

\* installService: write both copies, bootout (errors ignored), bootstrap;
\* when bootstrap fails: unload (|| true), load; when that fails, throw
installService(w, r) ==
  LET loadDone(w5) == IF w5.ok THEN {w5} ELSE {Throw(w5, "Failed to load service", "load")}
      unloadDone(w4) == UNION {loadDone(x) : x \in execSync(w4, "load", 0)}
      bootstrapDone(w3) == IF w3.ok THEN {w3} ELSE UNION {unloadDone(x) : x \in execSync(w3, "unload", 0)}
      bootoutDone(w2) == UNION {bootstrapDone(x) : x \in execSync(w2, "bootstrap", 0)}
      written(w1) == IF w1.err # NoErr THEN {w1} ELSE UNION {bootoutDone(x) : x \in execSync(w1, "bootout", 0)}
  IN UNION {written(x) : x \in generateAndWritePlist(w, r)}

\* the descriptor file at a location exists
existsSync(w, loc) == IF loc = "src" THEN w.src # NoFile ELSE w.dst # NoFile

\* unlinkSync guarded by existsSync: nothing to do, or the file is deleted,
\* or unlinkSync throws and the file stays
unlinkIfExists(w, loc) ==
  IF ~existsSync(w, loc) THEN {w}
  ELSE {[w EXCEPT !.src = IF loc = "src" THEN NoFile ELSE @,
                  !.dst = IF loc = "dst" THEN NoFile ELSE @],
        Throw(w, "unlink", loc)}

\* delete the active copy, then the source copy
unlinkPlists(w) ==
  LET second(w1) == IF w1.err # NoErr THEN {w1} ELSE unlinkIfExists(w1, "src")
  IN UNION {second(x) : x \in unlinkIfExists(w, "dst")}

\* the failure of the fallback unload is thrown
uninstallService_strict(w) ==
  LET cleanup(w4) == unlinkPlists([w4 EXCEPT !.ok = TRUE])
      unloadDone(w3) == IF w3.ok THEN cleanup(w3) ELSE {Throw(w3, "Failed to unload", "unload")}
      stopDone(w2) == UNION {unloadDone(x) : x \in execSync(w2, "unload", 0)}
      bootoutDone(w1) == IF w1.ok THEN cleanup(w1) ELSE UNION {stopDone(x) : x \in execSync(w1, "stop", 0)}
  IN UNION {bootoutDone(x) : x \in execSync(w, "bootout", 0)}

\* uninstallService: bootout; when it fails stop (|| true) and unload
\* (|| true); then delete the active copy and the source copy
uninstallService(w) ==
  LET cleanup(w4) == unlinkPlists([w4 EXCEPT !.ok = TRUE])
      stopDone(w2) == UNION {cleanup(x) : x \in execSync(w2, "unload", 0)}
      bootoutDone(w1) == IF w1.ok THEN cleanup(w1) ELSE UNION {stopDone(x) : x \in execSync(w1, "stop", 0)}
  IN UNION {bootoutDone(x) : x \in execSync(w, "bootout", 0)}

\* the first error thrown inside startService's try block, rethrown as
\* "Failed to start service"
StartFailed(w, cause) == Throw(w, "Failed to start service", cause)

\* startService: bootstrap with fallback load
startBootstrap(w) ==
  LET loadDone(b2) == IF b2.ok THEN {b2} ELSE {StartFailed(b2, "load")}
      bootstrapDone(b1) == IF b1.ok THEN {b1} ELSE UNION {loadDone(x) : x \in execSync(b1, "load", 0)}
  IN UNION {bootstrapDone(x) : x \in execSync(w, "bootstrap", 0)}

\* a failed kickstart is tried once more before the fallback
startKickstart_retry(w) ==
  LET startDone(k3) == IF k3.ok THEN {k3} ELSE {StartFailed(k3, "start")}
      stopDone(k2) == IF ~k2.ok THEN {StartFailed(k2, "stop")}
                      ELSE UNION {startDone(x) : x \in execSync(k2, "start", 0)}
      againDone(k1) == IF k1.ok THEN {k1} ELSE UNION {stopDone(x) : x \in execSync(k1, "stop", 0)}
      kickDone(k0) == IF k0.ok THEN {k0} ELSE UNION {againDone(x) : x \in execSync(k0, "kickstart", 0)}
  IN UNION {kickDone(x) : x \in execSync(w, "kickstart", 0)}

\* startService: kickstart -k with fallback stop then start
startKickstart(w) ==
  LET startDone(k3) == IF k3.ok THEN {k3} ELSE {StartFailed(k3, "start")}
      stopDone(k2) == IF ~k2.ok THEN {StartFailed(k2, "stop")}
                      ELSE UNION {startDone(x) : x \in execSync(k2, "start", 0)}
      kickDone(k1) == IF k1.ok THEN {k1} ELSE UNION {stopDone(x) : x \in execSync(k1, "stop", 0)}
  IN UNION {kickDone(x) : x \in execSync(w, "kickstart", 0)}

\* startService: launchctl start of a loaded label
startPlain(w) ==
  LET startDone(s1) == IF s1.ok THEN {s1} ELSE {StartFailed(s1, "start")}
  IN UNION {startDone(x) : x \in execSync(w, "start", 0)}

\* startService(identifier, service): svc is <<>> for service = null
startService(w, svc) ==
  LET status == getServiceStatus(w)
      written(w1) == IF w1.err # NoErr THEN {StartFailed(w1, w1.err[2])}
                     ELSE IF ~status.loaded THEN startBootstrap(w1)
                     ELSE startKickstart(w1)
  IN IF svc # <<>> THEN UNION {written(x) : x \in generateAndWritePlist(w, svc[1])}
     ELSE IF ~status.loaded
     THEN IF w.dst = NoFile THEN {StartFailed(w, "Plist not found")}
          ELSE startBootstrap(w)
     ELSE startPlain(w)

\* stopService(identifier, removePlist): bootout; when it fails stop then
\* unload with every error swallowed; kill the pid seen before the call;
\* optionally delete the active copy; return true
stopService(w, removePlist) ==
  LET status == getServiceStatus(w)
      finish(w5) == IF removePlist THEN unlinkIfExists([w5 EXCEPT !.ok = TRUE], "dst")
                    ELSE {[w5 EXCEPT !.ok = TRUE]}
      backup(w4) == IF status.pid # 0 THEN UNION {finish(x) : x \in execSync(w4, "kill", status.pid)}
                    ELSE finish(w4)
      stopDone(w2) == IF w2.ok THEN UNION {backup(x) : x \in execSync(w2, "unload", 0)} ELSE backup(w2)
      bootoutDone(w1) == IF w1.ok THEN backup(w1) ELSE UNION {stopDone(x) : x \in execSync(w1, "stop", 0)}
  IN UNION {bootoutDone(x) : x \in execSync(w, "bootout", 0)}

\* what can happen to the supervised process while the tool sleeps:
\* nothing, it exits, launchd respawns it when KeepAlive is set
Sleep(w) ==
  {w}
  \cup (IF w.loaded /\ w.pid # 0 THEN {[w EXCEPT !.pid = 0]} ELSE {})
  \cup (IF w.loaded /\ w.pid = 0 /\ w.keep THEN {Spawn(w)} ELSE {})

\* restartService(identifier, service): regenerate when a service is given;
\* kickstart -k; when it fails: stop (ignored), kill the pid, sleep 1,
\* startService
restartService(w, svc) ==
  LET again(w4) == UNION {startService(x, svc) : x \in Sleep(w4)}
      stopDone(w3, p) == IF p # 0 THEN UNION {again(x) : x \in execSync(w3, "kill", p)} ELSE again(w3)
      kickDone(w2) == IF w2.ok THEN {w2}
                      ELSE LET p == getServiceStatus(w2).pid
                               killer(w3) == stopDone(w3, p)
                           IN UNION {killer(x) : x \in execSync(w2, "stop", 0)}
      written(w1) == IF w1.err # NoErr THEN {w1} ELSE UNION {kickDone(x) : x \in execSync(w1, "kickstart", 0)}
  IN IF svc # <<>> THEN UNION {written(x) : x \in generateAndWritePlist(w, svc[1])}
     ELSE written(w)

\* --------------------------------------------------------------- commands
\* the commands sleep (1 to 2 s) before they query the status again
Wait(w) == Sleep(w)

\* the command's result becomes the state
Commit(w, name, rpt, status) ==
  /\ loaded' = w.loaded /\ keep' = w.keep /\ pid' = w.pid
  /\ src' = w.src /\ dst' = w.dst
  /\ verbs' = w.verbs /\ writes' = w.writes /\ err' = w.err
  /\ op' = name /\ report' = rpt /\ pre' = status
  /\ UNCHANGED <<writeVars, cfgVars, batchVars, extVars>>

\* the running test lost: only an unloaded label counts as nothing to do
startSkips_unloaded(status) == status.running /\ ~status.loaded

\* startCommand's test for "already running"
startSkips(status) == status.running

\* what startCommand does with a service that is not running: install when
\* the label is not loaded, else startService(identifier) without a record
startDispatch(w, r, status) ==
  IF ~status.loaded THEN installService(w, r)
  ELSE startService(w, <<>>)

\* the report looks at loaded instead of running
startReport_loaded(newStatus) == IF newStatus.loaded THEN "started" ELSE "starting"

\* startCommand's final report from the status queried after the wait
startReport(newStatus) == IF newStatus.running THEN "started" ELSE "starting"

\* the body of startCommand's loop for one service: the worlds it can end
\* in, each with what the spinner reports
startBody(w, r) ==
  LET status == getServiceStatus(w)
      waited(w1) == {[w |-> x, report |-> startReport(getServiceStatus(x))] : x \in Wait(w1)}
      dispatched(w1) == IF w1.err # NoErr THEN {[w |-> w1, report |-> "failed"]} ELSE waited(w1)
  IN IF startSkips(status) THEN {[w |-> w, report |-> "already running"]}
     ELSE UNION {dispatched(x) : x \in startDispatch(w, r, status)}

\* sm start <name>
startCommand ==
  LET status == getServiceStatus(World)
  IN /\ UNCHANGED rec /\ opts' = {} /\ before' = <<>>
     /\ IF rec = NoRec THEN Commit(World, "start", "not found", status)
        ELSE \E o \in startBody(World, rec[1]) : Commit(o.w, "start", o.report, status)

\* stopCommand's final report from the status queried after the wait
stopReport(newStatus) ==
  IF ~newStatus.running /\ ~newStatus.loaded THEN "stopped and unloaded"
  ELSE IF ~newStatus.running THEN "stopped"
  ELSE "may still be stopping"

\* sm stop <name>
stopCommand ==
  LET status == getServiceStatus(World)
  IN /\ UNCHANGED rec /\ opts' = {} /\ before' = <<>>
     /\ IF rec = NoRec THEN Commit(World, "stop", "not found", status)
        ELSE IF ~status.loaded THEN Commit(World, "stop", "not installed", status)
        ELSE \E w1 \in stopService(World, FALSE) :
               IF ~status.running
               THEN Commit(w1, "stop", "was stopped, now unloaded", status)
               ELSE \E w2 \in Wait(w1) :
                      Commit(w2, "stop", stopReport(getServiceStatus(w2)), status)

\* the report looks at loaded instead of running
restartReport_loaded(newStatus) == IF newStatus.loaded THEN "restarted" ELSE "restarting"

\* restartCommand's final report from the status queried after the wait
restartReport(newStatus) == IF newStatus.running THEN "restarted" ELSE "restarting"

\* what restartCommand does after it regenerated the descriptor
restartDispatch(w, r, status) ==
  IF ~status.loaded THEN installService(w, r)
  ELSE restartService(w, <<r>>)

\* the body of restartCommand's loop for one service
restartBody(w, r) ==
  LET status == getServiceStatus(w)
      waited(w2) == {[w |-> x, report |-> restartReport(getServiceStatus(x))] : x \in Wait(w2)}
      dispatched(w2) == IF w2.err # NoErr THEN {[w |-> w2, report |-> "failed"]} ELSE waited(w2)
      written(w1) == IF w1.err # NoErr THEN {[w |-> w1, report |-> "failed"]}
                     ELSE UNION {dispatched(x) : x \in restartDispatch(w1, r, status)}
  IN UNION {written(x) : x \in generateAndWritePlist(w, r)}

\* sm restart <name>
restartCommand ==
  LET status == getServiceStatus(World)
  IN /\ UNCHANGED rec /\ opts' = {} /\ before' = <<>>
     /\ IF rec = NoRec THEN Commit(World, "restart", "not found", status)
        ELSE \E o \in restartBody(World, rec[1]) : Commit(o.w, "restart", o.report, status)

\* the new service is installed whatever the options say
addInstalls_always(start) == TRUE

\* addCommand installs the new service only when --start is given
addInstalls(start) == start

\* sm add: addService rejects a name that exists; with --start the new
\* service is installed right away
addCommand ==
  \E c \in 1..MaxCmd, start \in BOOLEAN :
    LET status == getServiceStatus(World)
        r == [cmd |-> c, enabled |-> TRUE, keepAlive |-> TRUE]
    IN /\ opts' = (IF start THEN {"start"} ELSE {}) /\ before' = <<>>
       /\ IF rec # NoRec
          THEN UNCHANGED rec /\ Commit(Throw(World, "already exists", "add"), "add", "failed", status)
          ELSE
            /\ rec' = <<r>>
            /\ IF ~addInstalls(start) THEN Commit(World, "add", "added to configuration", status)
               ELSE \E w1 \in installService(World, r) :
                      Commit(w1, "add", IF w1.err # NoErr THEN "failed" ELSE "added and started", status)

\* updateService: Object.assign(service, updates), saveConfig
updateService ==
  /\ rec # NoRec
  /\ \E r \in Records \ {rec[1]} : rec' = <<r>>
  /\ opts' = {} /\ before' = <<>>
  /\ Commit(World, "update", "updated", getServiceStatus(World))

\* removeCommand, step 1: uninstallService when the label is loaded, else
\* only the two descriptor files are deleted
removePlists(w, status) ==
  IF status.loaded \/ status.running THEN uninstallService(w)
  ELSE unlinkPlists(w)

\* the end of both versions of sm remove: an exception of the uninstall
\* step is caught at the end of the command, which reports it and exits;
\* removeService runs only when nothing was thrown and --keep-config is
\* not given
removeFinish(w1, keepConfig, status) ==
  IF w1.err # NoErr
  THEN UNCHANGED rec /\ Commit(w1, "remove", "failed", status)
  ELSE /\ rec' = (IF keepConfig THEN rec ELSE NoRec)
       /\ Commit(w1, "remove",
                 IF keepConfig THEN "uninstalled from launchd" ELSE "removed completely",
                 status)

\* the descriptor files that exist
Before == <<[src |-> src # NoFile, dst |-> dst # NoFile]>>

\* sm remove <name> [--keep-config], the log files left alone: the version
\* that queries the status first
removeCommand ==
  \E keepConfig \in BOOLEAN :
    LET status == getServiceStatus(World)
    IN /\ opts' = (IF keepConfig THEN {"keepConfig"} ELSE {})
       /\ before' = <<>>
       /\ IF rec = NoRec
          THEN UNCHANGED rec /\ Commit(World, "remove", "not found", status)
          ELSE \E w1 \in removePlists(World, status) : removeFinish(w1, keepConfig, status)

\* sm remove <name> [--keep-config] of commands/remove.js: uninstallService
\* is called whatever the status
removeCommandDirect ==
  \E keepConfig \in BOOLEAN :
    LET status == getServiceStatus(World)
    IN /\ opts' = (IF keepConfig THEN {"keepConfig"} ELSE {})
       /\ before' = Before
       /\ IF rec = NoRec
          THEN UNCHANGED rec /\ Commit(World, "remove", "not found", status)
          ELSE \E w1 \in uninstallService(World) : removeFinish(w1, keepConfig, status)

\* ------------------------------------------------------------ environment
\* the supervised process exits on its own
processExit ==
  /\ loaded /\ pid # 0
  /\ UNCHANGED rec /\ opts' = {} /\ before' = <<>>
  /\ Commit([World EXCEPT !.pid = 0], "env", "", getServiceStatus(World))

\* launchd respawns a KeepAlive job
keepAliveRespawn ==
  /\ loaded /\ pid = 0 /\ keep
  /\ UNCHANGED rec /\ opts' = {} /\ before' = <<>>
  /\ Commit(Spawn(World), "env", "", getServiceStatus(World))

\* ------------------------------------------- writePlistAtomic, step by step
\* the bytes of a descriptor file: a file holding a proper prefix of them
\* is a truncated descriptor
Bytes(d) == <<d.ProgramArguments, d.RunAtLoad, d.KeepAlive>>

\* files that hold a whole descriptor, or do not exist
CompleteFiles == {NoFile} \cup {<<Bytes(d)>> : d \in Documents}

\* writeFileSync straight onto destPath, no temporary file
tempPath_inPlace == "dest"

\* the path writeFileSync writes to: a fresh .plist-<random>.tmp beside destPath
tempPath == "temp"

\* the file at a path
FileAt(path) == IF path = "dest" THEN fdest ELSE ftemp

\* the files after the file at path became f
SetFile(path, f) ==
  IF path = "dest" THEN fdest' = f /\ UNCHANGED ftemp
  ELSE ftemp' = f /\ UNCHANGED fdest

\* writePlistAtomic is entered with some rendered descriptor
wBegin ==
  /\ wpc \in {"idle", "failed", "crashed"}
  /\ \E d \in Documents : wcontent' = Bytes(d)
  /\ wold' = fdest
  /\ wpc' = "begin"
  /\ ftemp' = NoFile /\ UNCHANGED fdest
  /\ UNCHANGED <<lifeVars, cfgVars, batchVars, extVars>>

\* writeFileSync opens tempPath: the file is created, or truncated
wOpen ==
  /\ wpc = "begin"
  /\ SetFile(tempPath, << <<>> >>)
  /\ wpc' = "writing"
  /\ UNCHANGED <<wcontent, wold>> /\ UNCHANGED <<lifeVars, cfgVars, batchVars, extVars>>

\* writeFileSync writes the next byte
wWrite ==
  /\ wpc = "writing"
  /\ LET f == FileAt(tempPath)[1]
     IN IF Len(f) < Len(wcontent)
        THEN SetFile(tempPath, <<Append(f, wcontent[Len(f) + 1])>>) /\ wpc' = "writing"
        ELSE UNCHANGED <<fdest, ftemp>> /\ wpc' = "written"
  /\ UNCHANGED <<wcontent, wold>> /\ UNCHANGED <<lifeVars, cfgVars, batchVars, extVars>>

\* renameSync(tempPath, destPath), return true
wRename ==
  /\ wpc = "written"
  /\ fdest' = FileAt(tempPath)
  /\ ftemp' = NoFile
  /\ wpc' = "idle"
  /\ UNCHANGED <<wcontent, wold>> /\ UNCHANGED <<lifeVars, cfgVars, batchVars, extVars>>

\* writeFileSync or renameSync throws: the catch block tries to unlink the
\* temporary file through require('fs'), which an ES module may not have,
\* ignores any error of that, and rethrows
wFail ==
  /\ wpc \in {"begin", "writing", "written"}
  /\ \/ UNCHANGED ftemp
     \/ ftemp' = NoFile
  /\ wpc' = "failed"
  /\ UNCHANGED <<fdest, wcontent, wold>> /\ UNCHANGED <<lifeVars, cfgVars, batchVars, extVars>>

\* the process is killed inside writePlistAtomic
wCrash ==
  /\ wpc \in {"begin", "writing", "written"}
  /\ wpc' = "crashed"
  /\ UNCHANGED <<fdest, ftemp, wcontent, wold>> /\ UNCHANGED <<lifeVars, cfgVars, batchVars, extVars>>

\* ------------------------------- the application's writes, step by step
\* writePlistAtomically and the end of saveServices are entered with the
\* text to write; the temporary file is path + ".tmp", and one that an
\* earlier write left is still there
gwBegin ==
  /\ wpc \in {"idle", "failed", "crashed"}
  /\ \E d \in Documents : wcontent' = Bytes(d)
  /\ wold' = fdest
  /\ wpc' = "begin"
  /\ UNCHANGED <<fdest, ftemp>>
  /\ UNCHANGED <<lifeVars, cfgVars, batchVars, extVars>>

\* xml.write(toFile: tempPath, atomically: true), data.write(to: tempPath):
\* the temporary file holds the text
gwTemp ==
  /\ wpc = "begin"
  /\ ftemp' = <<wcontent>>
  /\ wpc' = "written"
  /\ UNCHANGED <<fdest, wcontent, wold>> /\ UNCHANGED <<lifeVars, cfgVars, batchVars, extVars>>

\* if fileExists(atPath: path) { removeItem(atPath: path) }
gwRemove ==
  /\ wpc = "written"
  /\ fdest' = NoFile
  /\ wpc' = "removed"
  /\ UNCHANGED <<ftemp, wcontent, wold>> /\ UNCHANGED <<lifeVars, cfgVars, batchVars, extVars>>

\* moveItem(atPath: tempPath, toPath: path)
gwMove ==
  /\ wpc = "removed"
  /\ fdest' = ftemp
  /\ ftemp' = NoFile
  /\ wpc' = "idle"
  /\ UNCHANGED <<wcontent, wold>> /\ UNCHANGED <<lifeVars, cfgVars, batchVars, extVars>>

\* one of the calls throws: writePlistAtomically passes the error on and
\* leaves the temporary file, the catch block of saveServices removes it
gwFail ==
  /\ wpc \in {"begin", "written", "removed"}
  /\ \/ UNCHANGED ftemp
     \/ ftemp' = NoFile
  /\ wpc' = "failed"
  /\ UNCHANGED <<fdest, wcontent, wold>> /\ UNCHANGED <<lifeVars, cfgVars, batchVars, extVars>>

\* the application is killed inside the write
gwCrash ==
  /\ wpc \in {"begin", "written", "removed"}
  /\ wpc' = "crashed"
  /\ UNCHANGED <<fdest, ftemp, wcontent, wold>> /\ UNCHANGED <<lifeVars, cfgVars, batchVars, extVars>>

\* ------------------------------------------------------------ the manifest
\* strings are sequences of characters
\* String.prototype.toLowerCase
toLowerCase(str) == [i \in 1..Len(str) |-> IF str[i] = "A" THEN "a" ELSE str[i]]

\* String.prototype.includes
includes(hay, needle) ==
  \E i \in 1..(Len(hay) - Len(needle) + 1) : SubSeq(hay, i, i + Len(needle) - 1) = needle

\* the characters [a-z0-9] that occur in the model
Alnum == {"a", "c"}

\* replace(/[^a-z0-9]+/g, '-'): every run of other characters becomes one dash
RECURSIVE Dashes(_)
Dashes(str) ==
  IF str = <<>> THEN <<>>
  ELSE LET ch == IF Head(str) \in Alnum THEN Head(str) ELSE "-"
           rest == Dashes(Tail(str))
           run == Tail(str) # <<>> /\ Head(Tail(str)) \notin Alnum
       IN IF ch = "-" /\ run THEN rest ELSE <<ch>> \o rest

\* replace(/^-|-$/g, ''): one leading and one trailing dash are dropped
Trim(str) ==
  LET a == IF str # <<>> /\ Head(str) = "-" THEN Tail(str) ELSE str
  IN IF a # <<>> /\ a[Len(a)] = "-" THEN SubSeq(a, 1, Len(a) - 1) ELSE a

\* generateIdentifier: <prefix>.<slug of the name>
generateIdentifier(name, prefix) == prefix \o <<".">> \o Trim(Dashes(toLowerCase(name)))

\* DEFAULT_CONFIG.settings.identifierPrefix, shortened to one character
identifierPrefix == <<"c">>

\* the service names the commands are given
Names == {<<"a">>, <<"A">>, <<"a", "a">>, <<"a", "-">>}

\* the identifiers of those names
Identifiers == {generateIdentifier(n, identifierPrefix) : n \in Names}

\* the default is saved whenever CONFIG_PATH is missing
loadConfig_alwaysDefault ==
  IF mfile = NoFile
  THEN [services |-> <<>>, file |-> <<[fmt |-> "tool", services |-> <<>>]>>]
  ELSE [services |-> mfile[1].services, file |-> mfile]

\* loadConfig: the services it returns and the file it leaves at
\* CONFIG_PATH.  With no file at either place the default is saved; the
\* content is read from CONFIG_PATH whichever place was chosen, and when
\* that read throws the default is returned
loadConfig ==
  IF mfile = NoFile /\ ~appSupport
  THEN [services |-> <<>>, file |-> <<[fmt |-> "tool", services |-> <<>>]>>]
  ELSE IF mfile = NoFile THEN [services |-> <<>>, file |-> mfile]
  ELSE [services |-> mfile[1].services, file |-> mfile]

\* saveConfig: JSON.stringify(config, null, 2) written to CONFIG_PATH
saveConfig(services) == <<[fmt |-> "tool", services |-> services]>>

\* the test of getService and removeService: same name in lower case, or
\* the name in lower case occurs in the identifier in lower case
Matches(s, name) ==
  \/ toLowerCase(s.name) = toLowerCase(name)
  \/ includes(toLowerCase(s.identifier), toLowerCase(name))

\* Array.prototype.findIndex with that test, 0 for -1
findIndex(services, name) ==
  IF \E i \in 1..Len(services) : Matches(services[i], name)
  THEN CHOOSE i \in 1..Len(services) :
         /\ Matches(services[i], name)
         /\ \A j \in 1..(i - 1) : ~Matches(services[j], name)
  ELSE 0

\* getService: the first entry that passes the test, <<>> for null
getService(services, name) ==
  LET i == findIndex(services, name)
  IN IF i = 0 THEN <<>> ELSE <<services[i]>>

\* removeService: splice(index, 1)
removeService(services, name) ==
  LET i == findIndex(services, name)
  IN SubSeq(services, 1, i - 1) \o SubSeq(services, i + 1, Len(services))

\* an operation on the manifest ends: what it was, what it reported
Done(name, arg, res, hit, calls) ==
  /\ mop' = name /\ marg' = arg /\ mres' = res /\ mhit' = hit /\ mverbs' = calls
  /\ UNCHANGED <<appSupport, lifeVars, writeVars, batchVars, extVars>>

\* the existence test always answers no: the entry is pushed and saved
addExists_late(services, service) == FALSE

\* addService's test for an entry that exists: same name in lower case, or
\* the very same identifier
addExists(services, service) ==
  \E i \in 1..Len(services) :
    \/ toLowerCase(services[i].name) = toLowerCase(service.name)
    \/ services[i].identifier = service.identifier

\* addService(service): loadConfig, throw when the entry exists, else push
\* and saveConfig
addService ==
  \E name \in Names, identifier \in Identifiers :
    LET config == loadConfig
        service == [name |-> name, identifier |-> identifier]
    IN /\ UNCHANGED <<plists, logfiles>>
       /\ IF addExists(config.services, service)
          THEN mfile' = config.file /\ Done("add", name, "already exists", <<service>>, FALSE)
          ELSE /\ Len(config.services) < MaxEntries
               /\ mfile' = saveConfig(Append(config.services, service))
               /\ Done("add", name, "ok", <<service>>, FALSE)

\* updateService(name, updates) with a new name or a new identifier: the
\* entry is found by its name in lower case, Object.assign, saveConfig
updateEntry ==
  \E name \in Names :
    LET config == loadConfig
        found == {i \in 1..Len(config.services) :
                    toLowerCase(config.services[i].name) = toLowerCase(name)}
        i == CHOOSE k \in found : \A j \in found : k <= j
    IN /\ UNCHANGED <<plists, logfiles>>
       /\ IF found = {}
          THEN mfile' = config.file /\ Done("update", name, "not found", <<>>, FALSE)
          ELSE \E updated \in
                    {[config.services[i] EXCEPT !.name = n] : n \in Names} \cup
                    {[config.services[i] EXCEPT !.identifier = id] : id \in Identifiers} :
                 /\ mfile' = saveConfig([config.services EXCEPT ![i] = updated])
                 /\ Done("update", name, "ok", <<config.services[i]>>, FALSE)

\* sm start|stop <name>: getService; when the name does not resolve the
\* command reports it and exits.  The control plane is taken to work
\* here: a start leaves descriptor files and log files for the identifier
nameCommand ==
  \E cmd \in {"start", "stop"}, name \in Names :
    LET config == loadConfig
        service == getService(config.services, name)
    IN /\ mfile' = config.file
       /\ IF service = <<>>
          THEN UNCHANGED <<plists, logfiles>> /\ Done(cmd, name, "not found", <<>>, FALSE)
          ELSE /\ plists' = IF cmd = "start" THEN plists \cup {service[1].identifier} ELSE plists
               /\ logfiles' = IF cmd = "start" THEN logfiles \cup {service[1].identifier}
                               ELSE logfiles
               /\ Done(cmd, name, "ok", service, TRUE)

\* sm remove <name> [--keep-config] [--clean-logs]: getService; uninstall
\* and delete the descriptor files; delete the log files; removeService
nameRemove ==
  \E name \in Names, keepConfig \in BOOLEAN, cleanLogs \in BOOLEAN :
    LET config == loadConfig
        service == getService(config.services, name)
    IN IF service = <<>>
       THEN /\ mfile' = config.file /\ UNCHANGED <<plists, logfiles>>
            /\ Done("remove", name, "not found", <<>>, FALSE)
       ELSE /\ plists' = plists \ {service[1].identifier}
            /\ logfiles' = IF cleanLogs THEN logfiles \ {service[1].identifier} ELSE logfiles
            /\ mfile' = IF keepConfig THEN config.file
                        ELSE saveConfig(removeService(config.services, name))
            /\ Done("remove", name, "ok", service, service[1].identifier \in plists)

\* sm edit: the user saves the manifest from an editor, laid out by hand
editManifest ==
  /\ mfile # NoFile /\ mfile[1].fmt = "tool"
  /\ mfile' = <<[mfile[1] EXCEPT !.fmt = "hand"]>>
  /\ UNCHANGED <<plists, logfiles>>
  /\ Done("edit", <<>>, "ok", <<>>, FALSE)

\* the menu bar application saves its copy of the manifest
guiSave ==
  /\ ~appSupport
  /\ appSupport' = TRUE
  /\ UNCHANGED <<mfile, plists, logfiles, mop, marg, mres, mhit, mverbs, lifeVars, writeVars, batchVars, extVars>>

\* ------------------------------------------------- commands with --all
\* the records of a manifest that was edited by hand: as add.js builds
\* them, or without a command
BatchRecords == [cmd : 0..MaxCmd, enabled : {TRUE}, keepAlive : {TRUE}]

\* a service that was never installed
Fresh(r) ==
  [rec |-> r, loaded |-> FALSE, keep |-> FALSE, pid |-> 0, src |-> NoFile, dst |-> NoFile]

\* the world of one service of the manifest
WorldOf(s) ==
  [loaded |-> s.loaded, keep |-> s.keep, pid |-> s.pid, lastPid |-> s.pid,
   src |-> s.src, dst |-> s.dst, verbs |-> <<>>, writes |-> <<>>, err |-> NoErr, ok |-> TRUE]

\* the service after the loop body ended in world w
Settled(s, w) ==
  [rec |-> s.rec, loaded |-> w.loaded, keep |-> w.keep, pid |-> w.pid,
   src |-> w.src, dst |-> w.dst]

\* the catch block rethrows: the loop is left at the first failure
afterBody_rethrow(rpt) == IF rpt = "failed" THEN "raised" ELSE "loop"

\* where the command is after the body ran for one service: the catch
\* block reports the failure and the loop goes on
afterBody(rpt) == "loop"

\* sm start --all, sm restart --all: services = config.services
batchBegin ==
  /\ bpc \in {"idle", "done"}
  /\ \E cmd \in {"start", "restart"} : bcmd' = cmd
  /\ bpc' = "loop" /\ bi' = 1 /\ bres' = <<>>
  /\ UNCHANGED <<bsvc, lifeVars, writeVars, cfgVars, extVars>>

\* one turn of the for loop
batchStep ==
  /\ bpc = "loop" /\ bi <= Len(bsvc)
  /\ \E o \in (IF bcmd = "start" THEN startBody(WorldOf(bsvc[bi]), bsvc[bi].rec)
                ELSE restartBody(WorldOf(bsvc[bi]), bsvc[bi].rec)) :
       /\ bsvc' = [bsvc EXCEPT ![bi] = Settled(bsvc[bi], o.w)]
       /\ bres' = Append(bres, o.report)
       /\ bpc' = afterBody(o.report)
  /\ bi' = bi + 1
  /\ UNCHANGED <<bcmd, lifeVars, writeVars, cfgVars, extVars>>

\* the loop is over and the command returns
batchEnd ==
  /\ bpc = "loop" /\ bi > Len(bsvc)
  /\ bpc' = "done"
  /\ UNCHANGED <<bsvc, bcmd, bi, bres, lifeVars, writeVars, cfgVars, extVars>>

\* between two commands the process of a service exits
batchProcessExit ==
  /\ bpc \in {"idle", "done"}
  /\ \E k \in 1..Len(bsvc) :
       /\ bsvc[k].loaded /\ bsvc[k].pid # 0
       /\ bsvc' = [bsvc EXCEPT ![k].pid = 0]
  /\ UNCHANGED <<bcmd, bpc, bi, bres, lifeVars, writeVars, cfgVars, extVars>>

\* ------------------------------------------- saveConfig beside a reader
\* the entries a services array may hold, each shortened to one character
EntryNames == {"a", "b"}

\* the services arrays of at most MaxEntries entries
ManifestLists == UNION {[1..n -> EntryNames] : n \in 0..MaxEntries}

\* JSON.stringify(config, null, 2): the array between its brackets
JSONstringify(services) == <<"[">> \o services \o <<"]">>

\* JSON.parse: the array of a whole text; any other text throws SyntaxError
JSONparse(text) ==
  IF Len(text) >= 2 /\ text[1] = "[" /\ text[Len(text)] = "]"
     /\ \A i \in 2..(Len(text) - 1) : text[i] \in EntryNames
  THEN [ok |-> TRUE, services |-> SubSeq(text, 2, Len(text) - 1)]
  ELSE [ok |-> FALSE, services |-> <<>>]

\* an instance of the tool that added or removed an entry calls
\* saveConfig(config): the text is built before the file is touched
saveBegin ==
  /\ spc = "idle"
  /\ LET services == JSONparse(sfile).services
     IN \E l \in ManifestLists :
          /\ \/ \E e \in EntryNames : l = Append(services, e)
             \/ services # <<>> /\ \E i \in 1..Len(services) :
                  l = SubSeq(services, 1, i - 1) \o SubSeq(services, i + 1, Len(services))
          /\ stext' = JSONstringify(l)
  /\ spc' = "open"
  /\ UNCHANGED <<sfile, sseen>>
  /\ UNCHANGED notSave

\* writeFileSync(CONFIG_PATH, text) opens the manifest itself with flag
\* 'w': the file is truncated
saveOpen ==
  /\ spc = "open"
  /\ sfile' = <<>>
  /\ spc' = "writing"
  /\ UNCHANGED <<stext, sseen>>
  /\ UNCHANGED notSave

\* writeFileSync writes the next byte, or is done and closes the file
saveWrite ==
  /\ spc = "writing"
  /\ IF Len(sfile) < Len(stext)
     THEN sfile' = Append(sfile, stext[Len(sfile) + 1]) /\ spc' = "writing"
     ELSE UNCHANGED sfile /\ spc' = "idle"
  /\ UNCHANGED <<stext, sseen>>
  /\ UNCHANGED notSave

\* loadConfig in a second instance of the tool: the file exists, its
\* content is read and parsed; when that throws, the error is printed and
\* DEFAULT_CONFIG, which has no services, is returned
loadConfigBeside ==
  /\ LET config == JSONparse(sfile)
     IN sseen' = <<[content |-> sfile, parsed |-> config.ok, services |-> config.services]>>
  /\ sseen' # sseen
  /\ UNCHANGED <<sfile, spc, stext>>
  /\ UNCHANGED notSave

\* the default manifest is on disk, no instance is writing
InitSave ==
  /\ sfile = JSONstringify(<<>>) /\ spc = "idle" /\ stext = <<>> /\ sseen = <<>>

\* ------------------------------------------------ the menu bar application
\* the entries of a services array, as far as update can change them
GuiEntries == [id : EntryNames, enabled : BOOLEAN]

\* saveServices: the array is written to services.json.tmp, the manifest
\* is removed and the temporary file moved in its place; any error is
\* caught and printed.  The file it can leave: the array, the file as it
\* was (the write failed), or none (the move failed after the remove)
saveServices(services, file) ==
  {[file |-> <<services>>, saved |-> TRUE],
   [file |-> file, saved |-> FALSE],
   [file |-> NoFile, saved |-> FALSE]}

\* the application ends an operation that saves; calls are the calls it
\* makes on the supervisor side, in order
GuiDone(name, id, services, file, calls) ==
  \E o \in saveServices(services, file) :
    /\ gmem' = services
    /\ gfile' = o.file
    /\ gop' = [op |-> name, id |-> id, saved |-> o.saved, calls |-> calls]
    /\ UNCHANGED notGui

\* add(service): services.append(service), saveServices(), and
\* startService when the service is enabled
guiAdd ==
  \E service \in GuiEntries :
    /\ Len(gmem) < MaxEntries
    /\ GuiDone("add", service.id, Append(gmem, service), gfile,
               IF service.enabled THEN <<"startService">> ELSE <<>>)

\* update(service): nothing happens when the array has no entry with the
\* id of service; else the old service is stopped when it was running, the
\* entry is replaced, saveServices(), and the service is started when it is
\* enabled now and was running or disabled
guiUpdate ==
  \E service \in GuiEntries, wasRunning \in BOOLEAN :
    /\ \E i \in 1..Len(gmem) : gmem[i].id = service.id
    /\ LET index == CHOOSE i \in 1..Len(gmem) :
                      gmem[i].id = service.id /\ \A j \in 1..(i - 1) : gmem[j].id # service.id
           wasEnabled == gmem[index].enabled
           nowEnabled == service.enabled
       IN GuiDone("update", service.id, [gmem EXCEPT ![index] = service], gfile,
                  (IF wasRunning THEN <<"stopService">> ELSE <<>>) \o
                  (IF (wasRunning \/ (~wasEnabled /\ nowEnabled)) /\ nowEnabled
                   THEN <<"startService">> ELSE <<>>))

\* remove(service): stopService, the descriptor in LaunchAgents is deleted,
\* services.removeAll { $0.id == service.id }, saveServices()
guiRemove ==
  \E service \in GuiEntries :
    /\ \E i \in 1..Len(gmem) : gmem[i] = service
    /\ GuiDone("remove", service.id, SelectSeq(gmem, LAMBDA e : e.id # service.id), gfile,
               <<"stopService", "removeItem">>)

\* init(): loadServicesFromConfig reads the manifest into the array; a
\* file that is missing or has no services leaves the array empty
guiLaunch ==
  /\ gmem' = IF gfile = NoFile THEN <<>> ELSE gfile[1]
  /\ gop' = [op |-> "launch", id |-> "", saved |-> FALSE, calls |-> <<>>]
  /\ UNCHANGED gfile
  /\ UNCHANGED notGui

\* the manifest is changed from outside the application: an entry is added
\* to it or taken out of it
externalChange ==
  /\ gfile # NoFile
  /\ \/ \E e \in GuiEntries : Len(gfile[1]) < MaxEntries /\ gfile' = <<Append(gfile[1], e)>>
     \/ \E i \in 1..Len(gfile[1]) :
          gfile' = <<SubSeq(gfile[1], 1, i - 1) \o SubSeq(gfile[1], i + 1, Len(gfile[1]))>>
  /\ gop' = [op |-> "external", id |-> "", saved |-> FALSE, calls |-> <<>>]
  /\ UNCHANGED gmem
  /\ UNCHANGED notGui

\* the application was launched with no manifest
InitGui ==
  /\ gfile = NoFile /\ gmem = <<>>
  /\ gop = [op |-> "launch", id |-> "", saved |-> FALSE, calls |-> <<>>]

\* ------------------------------------------------------ health evaluation
\* a function that ended: it returned value, or it threw
Returned(value) == [threw |-> FALSE, value |-> value]
Thrown == [threw |-> TRUE, value |-> <<>>]

\* HTTP status codes a server answers with
HttpStatuses == {200, 404, 500, 503}

\* what the probes of one evaluation do.  `lsof -i :port | grep LISTEN`
\* prints a line, prints nothing, exits nonzero (nothing listens, or lsof
\* failed) or runs into the timeout; fetch resolves with a response, rejects
\* (connection refused, certificate not trusted) or is aborted by the timer;
\* curl -w '%{http_code}' prints a status, prints 000, or fails
ProbeOutcomes ==
  [lsof : {"line", "blank", "nonzero", "timeout"},
   fetch : {[threw |-> "", status |-> c] : c \in HttpStatuses} \cup
           {[threw |-> "rejected", status |-> 0], [threw |-> "aborted", status |-> 0]},
   curl : {[threw |-> FALSE, status |-> c] : c \in HttpStatuses \cup {0}} \cup
          {[threw |-> TRUE, status |-> 0]}]

\* execSync of the lsof pipeline: the output, or an exception
execLsof(o) ==
  CASE o = "line" -> Returned("node 4711 LISTEN")
    [] o = "blank" -> Returned("")
    [] OTHER -> Thrown

\* the exception of the lsof pipeline leaves checkPort
checkPort_noCatch(o) ==
  LET output == execLsof(o)
  IN IF output.threw THEN Thrown
     ELSE IF output.value # "" THEN Returned([listening |-> TRUE])
     ELSE Returned([listening |-> FALSE])

\* checkPort: listening when the pipeline printed something; the catch
\* block is empty and the function falls through to "not listening"
checkPort(o) ==
  LET output == execLsof(o)
  IN IF output.threw THEN Returned([listening |-> FALSE])
     ELSE IF output.value # "" THEN Returned([listening |-> TRUE])
     ELSE Returned([listening |-> FALSE])

\* checkHealthWithCurl: healthy for a status above 0 and below 500; an
\* exception of execSync is caught
checkHealthWithCurl(o) ==
  IF o.threw THEN Returned([healthy |-> FALSE, status |-> <<>>])
  ELSE Returned([healthy |-> (o.status > 0 /\ o.status < 500), status |-> <<o.status>>])

\* checkHealth: healthy for a response that is ok or below 500; when fetch
\* throws, an https URL is tried again with curl, any other URL is unhealthy
checkHealth(url, o) ==
  IF o.fetch.threw = ""
  THEN Returned([healthy |-> ((o.fetch.status >= 200 /\ o.fetch.status <= 299)
                              \/ o.fetch.status < 500),
                 status |-> <<o.fetch.status>>])
  ELSE IF url = "https" THEN checkHealthWithCurl(o.curl)
  ELSE Returned([healthy |-> FALSE, status |-> <<>>])

\* the services evaluated: with or without a port, with or without a
\* health URL
HealthServices == [port : {0, 1}, healthCheck : {"", "http", "https"}]

\* the statuses getServiceStatus returns
LaunchdStatuses ==
  {[loaded |-> FALSE, running |-> FALSE], [loaded |-> TRUE, running |-> FALSE],
   [loaded |-> TRUE, running |-> TRUE]}

\* the overall status from the launchd status and the two checks, each
\* <<>> for null
overallStatus(launchdStatus, portCheck, httpCheck) ==
  IF ~launchdStatus.loaded THEN "not_installed"
  ELSE IF ~launchdStatus.running THEN "stopped"
  ELSE IF portCheck # <<>> /\ ~portCheck[1].listening THEN "starting"
  ELSE IF httpCheck # <<>> /\ ~httpCheck[1].healthy THEN "unhealthy"
  ELSE "healthy"

\* getServiceHealth: the port is probed when the service has one, the URL
\* when it has one, then the overall status is set; an exception of a
\* probe would leave the function
getServiceHealth(service, launchdStatus, o) ==
  LET port == IF service.port # 0 THEN checkPort(o.lsof) ELSE Returned(<<>>)
      http == IF service.healthCheck # "" THEN checkHealth(service.healthCheck, o)
              ELSE Returned(<<>>)
      portCheck == IF service.port # 0 THEN <<port.value>> ELSE <<>>
      httpCheck == IF service.healthCheck # "" THEN <<http.value>> ELSE <<>>
  IN IF port.threw \/ http.threw THEN Thrown
     ELSE Returned([launchd |-> launchdStatus, portCheck |-> portCheck,
                    httpCheck |-> httpCheck,
                    status |-> overallStatus(launchdStatus, portCheck, httpCheck)])

\* sm status evaluates the service: getServiceHealth(service, launchdStatus)
evaluate ==
  /\ hres = <<>> /\ ~hthrew
  /\ LET health == getServiceHealth(hsvc, hlaunchd, hprobe)
     IN /\ hthrew' = health.threw
        /\ hres' = IF health.threw THEN <<>> ELSE <<health.value>>
  /\ UNCHANGED <<hsvc, hlaunchd, hprobe>>
  /\ UNCHANGED notHealth

\* nothing was evaluated yet
InitHealth ==
  /\ hsvc = [port |-> 0, healthCheck |-> ""]
  /\ hlaunchd = [loaded |-> FALSE, running |-> FALSE]
  /\ hprobe = [lsof |-> "nonzero", fetch |-> [threw |-> "rejected", status |-> 0],
               curl |-> [threw |-> TRUE, status |-> 0]]
  /\ hres = <<>> /\ hthrew = FALSE

\* any service, any launchd status, and any behaviour of the probes
InitHealthAny ==
  /\ hsvc \in HealthServices /\ hlaunchd \in LaunchdStatuses /\ hprobe \in ProbeOutcomes
  /\ hres = <<>> /\ hthrew = FALSE

\* ------------------------------------------------- getServiceStatus itself
\* the labels in the model
Labels == {"a", "b", "z"}

\* the job tables: what launchd knows of a job is its pid, 0 when no
\* process runs, and the exit status of its last process; "z" is a label no
\* table has
JobTables ==
  UNION {[known -> [pid : 0..MaxPid, exit : {0, 1}]] : known \in SUBSET {"a", "b"}}

\* execSync of `launchctl list <label> 2>&1`: the dictionary launchctl
\* prints for a job it knows, the PID line only when a process runs; for a
\* label it does not know launchctl exits nonzero and execSync throws
launchctlList(table, identifier) ==
  IF identifier \notin DOMAIN table THEN Thrown
  ELSE LET job == table[identifier]
       IN Returned(<< <<"Label", identifier>>, <<"LastExitStatus", job.exit>> >> \o
                   (IF job.pid # 0 THEN << <<"PID", job.pid>> >> ELSE <<>>))

\* output.match(/"key"\s*=\s*(\d+)/) with parseInt: <<n>>, or <<>> for null
matchNumber(output, key) ==
  IF \E i \in 1..Len(output) : output[i][1] = key
  THEN <<(output[CHOOSE i \in 1..Len(output) : output[i][1] = key])[2]>>
  ELSE <<>>

\* the exception of launchctl list leaves the function
getServiceStatusOf_noCatch(table, identifier) ==
  LET output == launchctlList(table, identifier)
  IN IF output.threw THEN Thrown
     ELSE LET p == matchNumber(output.value, "PID")
          IN Returned([loaded |-> TRUE, running |-> p # <<>>, pid |-> p,
                       exitStatus |-> matchNumber(output.value, "LastExitStatus")])

\* getServiceStatus(identifier): loaded with the parsed pid and exit
\* status; in the catch block: not loaded, not running, pid and exit
\* status null
getServiceStatusOf(table, identifier) ==
  LET output == launchctlList(table, identifier)
  IN IF output.threw
     THEN Returned([loaded |-> FALSE, running |-> FALSE, pid |-> <<>>, exitStatus |-> <<>>])
     ELSE LET p == matchNumber(output.value, "PID")
          IN Returned([loaded |-> TRUE, running |-> p # <<>>, pid |-> p,
                       exitStatus |-> matchNumber(output.value, "LastExitStatus")])

\* a command queries the status of the identifier
queryStatus ==
  /\ qres = <<>> /\ ~qthrew
  /\ LET status == getServiceStatusOf(jobs, qid)
     IN /\ qthrew' = status.threw
        /\ qres' = IF status.threw THEN <<>> ELSE <<status.value>>
  /\ UNCHANGED <<jobs, qid>>
  /\ UNCHANGED notStatus

\* launchd knows no job and nothing was queried
InitStatus ==
  /\ jobs = << >> /\ qid = "z" /\ qres = <<>> /\ qthrew = FALSE

\* any job table and any identifier
InitStatusAny ==
  /\ jobs \in JobTables /\ qid \in Labels /\ qres = <<>> /\ qthrew = FALSE

\* ---------------------------------------------------------------- escaping
\* longest string given to escapeXml
MaxStr == 4

\* the strings given to escapeXml, of the five characters that are
\* escaped and enough others to spell the name of an entity
Strings ==
  UNION {[1..n -> {"&", "<", ">", "\"", "'", "l", "t", ";"}] : n \in 0..MaxStr}

\* String.prototype.replace(/pat/g, rep): every occurrence from left to
\* right, the text put in is not scanned again
RECURSIVE replaceAll(_, _, _)
replaceAll(str, pat, rep) ==
  IF str = <<>> THEN <<>>
  ELSE IF Len(str) >= Len(pat) /\ SubSeq(str, 1, Len(pat)) = pat
       THEN rep \o replaceAll(SubSeq(str, Len(pat) + 1, Len(str)), pat, rep)
       ELSE <<Head(str)>> \o replaceAll(Tail(str), pat, rep)

\* the five entities
Entities ==
  [amp |-> <<"&", "a", "m", "p", ";">>, lt |-> <<"&", "l", "t", ";">>,
   gt |-> <<"&", "g", "t", ";">>, quot |-> <<"&", "q", "u", "o", "t", ";">>,
   apos |-> <<"&", "a", "p", "o", "s", ";">>]

\* escapeXml: & first, then < > " '
escapeXml(str) ==
  replaceAll(replaceAll(replaceAll(replaceAll(replaceAll(str,
    <<"&">>, Entities.amp), <<"<">>, Entities.lt), <<">">>, Entities.gt),
    <<"\"">>, Entities.quot), <<"'">>, Entities.apos)

\* PlistParser.decodeXmlEntities: &amp; first, then &lt; &gt; &quot; &apos;
decodeXmlEntities(str) ==
  replaceAll(replaceAll(replaceAll(replaceAll(replaceAll(str,
    Entities.amp, <<"&">>), Entities.lt, <<"<">>), Entities.gt, <<">">>),
    Entities.quot, <<"\"">>), Entities.apos, <<"'">>)

\* the index of the first "<" of the text, where </string> begins
RECURSIVE indexOfEnd(_, _)
indexOfEnd(text, i) ==
  IF i > Len(text) THEN i
  ELSE IF text[i] = "<" THEN i ELSE indexOfEnd(text, i + 1)

\* PlistParser.parseString on <string>text</string>: '' for an empty text,
\* else the text up to </string>, decoded
parseString(text) ==
  IF text = <<>> THEN <<>>
  ELSE decodeXmlEntities(SubSeq(text, 1, indexOfEnd(text, 1) - 1))

\* valueToXml renders the string: <string>${escapeXml(value)}</string>
escapeStep ==
  /\ xpc = "in"
  /\ xesc' = escapeXml(xin)
  /\ xpc' = "escaped"
  /\ UNCHANGED <<xin, xdec>>
  /\ UNCHANGED notEsc

\* the migration tool parses the descriptor back
parseStep ==
  /\ xpc = "escaped"
  /\ xdec' = parseString(xesc)
  /\ xpc' = "parsed"
  /\ UNCHANGED <<xin, xesc>>
  /\ UNCHANGED notEsc

\* nothing is escaped
InitEscape ==
  /\ xin = <<>> /\ xesc = <<>> /\ xdec = <<>> /\ xpc = "in"

\* any string is about to be rendered
InitEscapeAny ==
  /\ xin \in Strings /\ xesc = <<>> /\ xdec = <<>> /\ xpc = "in"

\* --------------------------------------------------------------- rendering
\* longest command given as one string
MaxArg == 2

\* calls of generatePlistFromService made with one service object
MaxRenders == 2

\* the services given to the renderer.  identifier: <<>> for none;
\* command: undefined, a string, or an array of strings;
\* environmentVariables: <<>> for undefined, or an object, its entries in
\* insertion order, with or without PATH ("P"), a PATH that may be '';
\* keepAlive: undefined, a boolean, or the object {SuccessfulExit: val};
\* path: <<>> for null, or a string, which may be '' or begin with ~
RenderServices ==
  [identifier : {<<>>, <<"t">>},
   command : {[kind |-> "none", val |-> <<>>]} \cup
             {[kind |-> "string", val |-> str] :
                str \in UNION {[1..n -> {"l", " "}] : n \in 0..MaxArg}} \cup
             {[kind |-> "array", val |-> <<>>], [kind |-> "array", val |-> << <<"l">> >>]},
   env : {<<>>, << <<>> >>, << << <<<<"t">>, <<"l">>>> >> >>,
          << << <<<<"P">>, <<"l">>>> >> >>, << << <<<<"P">>, <<>>>> >> >>},
   keepAlive : {[kind |-> "none", val |-> FALSE]} \cup [kind : {"bool", "object"}, val : BOOLEAN],
   path : {<<>>, << <<>> >>, << <<"/", "t">> >>, << <<"~", "/", "t">> >>}]

\* settings.nodePath: none, or the path of a node binary
RenderSettings == [nodePath : {<<>>, <<"l">>, <<"/", "t", "/", "l">>}]

\* path.dirname for a path that does not end in a slash: what is before
\* the last slash, "/" when that is the first character, "." without slash
RECURSIVE dirname(_)
dirname(p) ==
  IF p = <<>> THEN <<".">>
  ELSE IF p[Len(p)] = "/"
       THEN (IF Len(p) = 1 THEN <<"/">> ELSE SubSeq(p, 1, Len(p) - 1))
       ELSE dirname(SubSeq(p, 1, Len(p) - 1))

\* expandPath(path): the home directory for a leading ~; null has no
\* startsWith, the call throws a TypeError
expandPath(path) ==
  IF path = <<>> THEN Thrown
  ELSE IF path[1] # <<>> /\ Head(path[1]) = "~"
       THEN Returned(<<"/", "h">> \o Tail(path[1]))
       ELSE Returned(path[1])

\* keepAliveXml, were every service kept alive
keepAliveXml_always(keepAlive) == <<"<true/>">>

\* keepAliveXml: <true/> or <false/> for a boolean and for undefined,
\* which counts as true; for an object a <dict> of its entries, each value
\* written as the tag of its name
keepAliveXml(keepAlive) ==
  IF keepAlive.kind = "object"
  THEN <<"<dict>", "<key>", "SuccessfulExit", "</key>",
         IF keepAlive.val THEN "<true/>" ELSE "<false/>", "</dict>">>
  ELSE IF keepAlive.kind = "none" \/ keepAlive.val THEN <<"<true/>">> ELSE <<"<false/>">>

\* the length of the run of characters other than white space that str
\* begins with
RECURSIVE wordLen(_)
wordLen(str) ==
  IF str = <<>> \/ Head(str) = " " THEN 0 ELSE 1 + wordLen(Tail(str))

\* command.split(/\s+/).filter(Boolean): the words of the string
RECURSIVE splitWords(_)
splitWords(str) ==
  IF str = <<>> THEN <<>>
  ELSE IF Head(str) = " " THEN splitWords(Tail(str))
  ELSE <<SubSeq(str, 1, wordLen(str))>> \o splitWords(SubSeq(str, wordLen(str) + 1, Len(str)))

\* !service.command: undefined and the empty string are falsy, an array
\* is truthy even when it is empty
commandMissing(command) ==
  command.kind = "none" \/ (command.kind = "string" /\ command.val = <<>>)

\* commandArray: the array itself, or the words of the string
commandArray(command) ==
  IF command.kind = "array" THEN command.val ELSE splitWords(command.val)

\* envVars after the PATH step: service.environmentVariables itself, or a
\* new {} when the service has none; when settings.nodePath is set and
\* envVars.PATH is falsy (no such key, or ''), PATH is assigned: a new key
\* goes last, a key that is there keeps its place
withPath(envVars, settings) ==
  LET at == {i \in 1..Len(envVars) : envVars[i][1] = <<"P">>}
      PATH == <<<<"P">>, dirname(settings.nodePath) \o <<":/usr/local/bin:/usr/bin:/bin">>>>
  IN IF settings.nodePath = <<>> \/ \E i \in at : envVars[i][2] # <<>> THEN envVars
     ELSE IF at = {} THEN Append(envVars, PATH)
     ELSE [i \in 1..Len(envVars) |-> IF i \in at THEN PATH ELSE envVars[i]]

\* generatePlistFromService(service, settings): the error it throws or the
\* document it returns, and the service object as the call leaves it.  The
\* keys that follow from fields held fixed here (enabled, the log
\* directory) are left out of the document; a key that is not rendered is
\* <<>>, and ThrottleInterval never is, no service here has one
generatePlistFull(service, settings) ==
  IF service.identifier = <<>>
  THEN [threw |-> "Service must have an identifier", doc |-> <<>>, service |-> service]
  ELSE IF commandMissing(service.command)
  THEN [threw |-> "Service must have a command", doc |-> <<>>, service |-> service]
  ELSE LET envVars == withPath(IF service.env = <<>> THEN <<>> ELSE service.env[1], settings)
           args == commandArray(service.command)
       IN [threw |-> "",
           doc |-> <<[Label |-> escapeXml(service.identifier),
                      ProgramArguments |-> <<[i \in 1..Len(args) |-> escapeXml(args[i])]>>,
                      WorkingDirectory |->
                        IF service.path \in {<<>>, << <<>> >>} THEN <<>>
                        ELSE <<escapeXml(service.path[1])>>,
                      KeepAlive |-> keepAliveXml(service.keepAlive),
                      ThrottleInterval |-> <<>>,
                      EnvironmentVariables |->
                        [i \in 1..Len(envVars) |->
                           <<escapeXml(envVars[i][1]), escapeXml(envVars[i][2])>>]]>>,
           service |-> IF service.env = <<>> THEN service
                       ELSE [service EXCEPT !.env = <<envVars>>]]

\* generatePlist of launchd.js renders the service it is given, with some
\* settings
renderCall ==
  /\ rcalls < MaxRenders
  /\ \E settings \in RenderSettings :
       LET r == generatePlistFull(robj, settings)
       IN /\ rset' = settings
          /\ rout' = r.doc /\ rerr' = r.threw
          /\ robj' = r.service
  /\ rcalls' = rcalls + 1 /\ rvia' = "render"
  /\ UNCHANGED <<rval, rswift>>
  /\ UNCHANGED notRender

\* generateAndWritePlist, as install and start call it: the path is
\* expanded, the renderer is given a copy of the service with that path (a
\* copy that shares the environmentVariables object), and the document is
\* written to both places
installRender ==
  /\ rcalls < MaxRenders
  /\ \E settings \in RenderSettings :
       LET path == expandPath(robj.path)
           r == generatePlistFull([robj EXCEPT !.path = <<path.value>>], settings)
       IN /\ rset' = settings
          /\ IF path.threw
             THEN rout' = <<>> /\ rerr' = "TypeError" /\ robj' = robj
             ELSE /\ rout' = r.doc /\ rerr' = r.threw
                  /\ robj' = [robj EXCEPT !.env = r.service.env]
  /\ rcalls' = rcalls + 1 /\ rvia' = "install"
  /\ UNCHANGED <<rval, rswift>>
  /\ UNCHANGED notRender

\* escapeXML of the application: & first, then < > " and nothing for '
escapeXML(str) ==
  replaceAll(replaceAll(replaceAll(replaceAll(str,
    <<"&">>, Entities.amp), <<"<">>, Entities.lt), <<">">>, Entities.gt),
    <<"\"">>, Entities.quot)

\* generatePlistXML of the application for the Service it loads from the
\* manifest entry: a command that is not an array of strings is nil, a
\* keepAlive that is not a boolean is true.  envDict starts with the PATH
\* of the application's own environment and takes the entries of the
\* service over it; a Dictionary is written in an order that is not
\* specified, so the documents it can return are a set
generatePlistXML(service) ==
  LET command == IF service.command.kind = "array" THEN service.command.val ELSE <<>>
      customEnv == IF service.env = <<>> THEN <<>> ELSE service.env[1]
      own == {i \in 1..Len(customEnv) : customEnv[i][1] = <<"P">>}
      envDict == IF own = {} THEN <<<<<<"P">>, <<"$PATH">>>>>> \o customEnv ELSE customEnv
      keepAlive == service.keepAlive.kind # "bool" \/ service.keepAlive.val
  IN {[Label |-> escapeXML(service.identifier),
       ProgramArguments |->
         IF command = <<>> THEN <<>>
         ELSE <<[i \in 1..Len(command) |-> escapeXML(command[i])]>>,
       WorkingDirectory |->
         IF service.path = <<>> THEN <<>>
         ELSE IF service.path[1] # <<>> /\ Head(service.path[1]) = "~"
              THEN <<escapeXML(<<"/", "h">> \o Tail(service.path[1]))>>
              ELSE <<escapeXML(service.path[1])>>,
       KeepAlive |->
         IF keepAlive
         THEN <<"<dict>", "<key>", "SuccessfulExit", "</key>", "<false/>", "</dict>">>
         ELSE <<"<false/>">>,
       ThrottleInterval |-> <<10>>,
       EnvironmentVariables |->
         [i \in 1..Len(envDict) |->
            <<escapeXML(envDict[order[i]][1]), escapeXML(envDict[order[i]][2])>>]] :
      order \in {f \in [1..Len(envDict) -> 1..Len(envDict)] :
                   \A i, j \in 1..Len(envDict) : f[i] = f[j] => i = j}}

\* the application starts the service: it renders the entry it loaded, an
\* entry without identifier is not loaded
guiRender ==
  /\ rswift = <<>> /\ rval.identifier # <<>>
  /\ \E doc \in generatePlistXML(rval) : rswift' = <<doc>>
  /\ UNCHANGED <<rval, robj, rset, rout, rerr, rcalls, rvia>>
  /\ UNCHANGED notRender

\* no service is held
InitRender ==
  /\ rval = [identifier |-> <<>>, command |-> [kind |-> "none", val |-> <<>>], env |-> <<>>,
             keepAlive |-> [kind |-> "none", val |-> FALSE], path |-> <<>>]
  /\ robj = rval /\ rset = [nodePath |-> <<>>]
  /\ rout = <<>> /\ rerr = "" /\ rcalls = 0 /\ rvia = "" /\ rswift = <<>>

\* any service was read from the manifest
InitRenderAny ==
  /\ rval \in RenderServices /\ robj = rval /\ rset = [nodePath |-> <<>>]
  /\ rout = <<>> /\ rerr = "" /\ rcalls = 0 /\ rvia = "" /\ rswift = <<>>

\* ----------------------------------------------------- the job table read
\* the labels of jobs and the prefixes of settings.identifierPrefix
ListLabels == UNION {[1..n -> {"c", "x"}] : n \in 1..2}

\* the job tables, of up to two jobs
ListTables ==
  UNION {[known -> [pid : 0..MaxPid, exit : {0, 1}]] :
           known \in {k \in SUBSET ListLabels : Cardinality(k) <= 2}}

\* parseInt(str, 10) of a string of one digit
parseInt(str) == CHOOSE n \in 0..9 : ToString(n) = str[1]

\* the lines `launchctl list` prints, the header and then a line for each
\* job in the order given: the pid or "-", the last exit status, the label,
\* with a tab between (here " ", to /\s+/ the same)
launchctlListAll(table, order) ==
  << <<"PID", " ", "Status", " ", "Label">> >> \o
  [i \in 1..Len(order) |->
     <<IF table[order[i]].pid = 0 THEN "-" ELSE ToString(table[order[i]].pid), " ",
       ToString(table[order[i]].exit), " ">> \o order[i]]

\* the loop of getAllManagedServices over the lines from the i-th on
RECURSIVE managedFrom(_, _, _)
managedFrom(lines, prefix, i) ==
  IF i > Len(lines) THEN <<>>
  ELSE LET parts == splitWords(lines[i])
       IN (IF includes(lines[i], prefix) /\ Len(parts) >= 3
           THEN <<[identifier |-> parts[3],
                   pid |-> IF parts[1] = <<"-">> THEN <<>> ELSE <<parseInt(parts[1])>>,
                   exitStatus |-> parseInt(parts[2]),
                   running |-> parts[1] # <<"-">> /\ parts[1] # <<"0">>]>>
           ELSE <<>>) \o managedFrom(lines, prefix, i + 1)

\* getAllManagedServices(): [] when launchctl list fails
getAllManagedServices(output, prefix) ==
  IF output.threw THEN <<>> ELSE managedFrom(output.value, prefix, 1)

\* checkService of the application: running with the pid of the PID line,
\* running without pid when launchctl list <label> exits 0 and there is no
\* PID line, stopped otherwise
checkService(table, identifier) ==
  LET output == launchctlList(table, identifier)
  IN IF output.threw THEN [status |-> "stopped", pid |-> <<>>]
     ELSE [status |-> "running", pid |-> matchNumber(output.value, "PID")]

\* a command lists the managed services; launchctl prints the jobs in
\* some order, or fails
listManaged ==
  /\ lq.op = "none"
  /\ \E order \in {f \in [1..Cardinality(DOMAIN ljobs) -> DOMAIN ljobs] :
                     \A i, j \in DOMAIN f : f[i] = f[j] => i = j},
        ok \in BOOLEAN :
       lq' = [op |-> "list", id |-> <<>>, ok |-> ok,
              res |-> getAllManagedServices(
                        IF ok THEN Returned(launchctlListAll(ljobs, order)) ELSE Thrown,
                        lprefix)]
  /\ UNCHANGED <<ljobs, lprefix>>
  /\ UNCHANGED notList

\* a command asks for the status of one identifier
listStatus ==
  /\ lq.op = "none"
  /\ \E identifier \in ListLabels :
       lq' = [op |-> "status", id |-> identifier, ok |-> TRUE,
              res |-> getServiceStatusOf(ljobs, identifier).value]
  /\ UNCHANGED <<ljobs, lprefix>>
  /\ UNCHANGED notList

\* the application checks one of its services
guiCheck ==
  /\ lq.op = "none"
  /\ \E identifier \in ListLabels :
       lq' = [op |-> "check", id |-> identifier, ok |-> TRUE,
              res |-> checkService(ljobs, identifier)]
  /\ UNCHANGED <<ljobs, lprefix>>
  /\ UNCHANGED notList

\* launchd knows no job and nothing was asked
InitList ==
  /\ ljobs = << >> /\ lprefix = <<"c">>
  /\ lq = [op |-> "none", id |-> <<>>, ok |-> TRUE, res |-> <<>>]

\* any job table and any prefix
InitListAny ==
  /\ ljobs \in ListTables /\ lprefix \in ListLabels
  /\ lq = [op |-> "none", id |-> <<>>, ok |-> TRUE, res |-> <<>>]

\* ------------------------------------------------------------ the monitor
\* the services of monitor.sh, in the order the loop body checks them
Monitored == <<"clawdbot", "https-server", "log-server", "debug-server">>

\* a check that raised an alert whenever the service is down
monitorCheck_stateless(svc, up, state, agent) ==
  IF up
  THEN [state |-> "running", restart |-> FALSE,
        alert |-> IF svc \in {"clawdbot", "https-server"} /\ state = "stopped"
                  THEN "restored" ELSE ""]
  ELSE [state |-> "stopped",
        restart |-> svc = "clawdbot" \/ (svc = "https-server" /\ agent),
        alert |-> IF svc \in {"clawdbot", "https-server"} THEN "down" ELSE ""]

\* one block of the loop body, for a service whose check succeeded or not
\* and whose recorded state is state: the state it records, the alert it
\* sends and whether it calls restart_launchd.  The two critical services
\* alert; https-server is restarted only when its LaunchAgent file is
\* there; the other two only write to the log
monitorCheck(svc, up, state, agent) ==
  IF up
  THEN [state |-> "running", restart |-> FALSE,
        alert |-> IF svc \in {"clawdbot", "https-server"} /\ state = "stopped"
                  THEN "restored" ELSE ""]
  ELSE [state |-> "stopped",
        restart |-> state # "stopped" /\ (svc = "clawdbot" \/ (svc = "https-server" /\ agent)),
        alert |-> IF svc \in {"clawdbot", "https-server"} /\ state # "stopped"
                  THEN "down" ELSE ""]

\* the loop of monitor.sh runs its next block; after the last one it
\* sleeps and begins again.  A restart may bring the service up or not
monitorStep ==
  \E agent \in BOOLEAN, back \in BOOLEAN :
    LET svc == Monitored[mpc]
        r == monitorCheck(svc, svc \in mup, mstate[svc], agent)
    IN /\ mstate' = [mstate EXCEPT ![svc] = r.state]
       /\ mlast' = [svc |-> svc, alert |-> r.alert, restart |-> r.restart]
       /\ mup' = IF r.restart /\ back THEN mup \cup {svc} ELSE mup
       /\ mpc' = IF mpc = Len(Monitored) THEN 1 ELSE mpc + 1
       /\ UNCHANGED gmon
       /\ UNCHANGED notMon

\* checkAllServices of the application, for its first service: it
\* notifies when the service was running at the last check and is stopped
guiCheckAll ==
  LET status == IF Monitored[1] \in mup THEN "running" ELSE "stopped"
  IN /\ gmon' = [last |-> status, notified |-> gmon.last = "running" /\ status = "stopped"]
     /\ gmon' # gmon
     /\ UNCHANGED <<mup, mstate, mpc, mlast>>
     /\ UNCHANGED notMon

\* a service goes down, or comes up
serviceChange ==
  /\ \E svc \in {Monitored[i] : i \in 1..Len(Monitored)} :
       mup' = IF svc \in mup THEN mup \ {svc} ELSE mup \cup {svc}
  /\ UNCHANGED <<mstate, mpc, mlast, gmon>>
  /\ UNCHANGED notMon

\* the monitor has started: every state is unknown
InitMon ==
  /\ mup = {} /\ mstate = [svc \in {Monitored[i] : i \in 1..Len(Monitored)} |-> "unknown"]
  /\ mpc = 1 /\ mlast = [svc |-> "", alert |-> "", restart |-> FALSE]
  /\ gmon = [last |-> "none", notified |-> FALSE]

\* ----------------------------------------- two instances and two manifests
\* DEFAULT_CONFIG, of its settings the log directory
DEFAULT_CONFIG == [services |-> <<>>, logDir |-> "logs"]

\* the manifests the application saves: its services, and its own settings
AppManifests ==
  {[services |-> svcs, logDir |-> "app"] :
     svcs \in {<<>>} \cup
              {<<[name |-> n, identifier |-> generateIdentifier(n, identifierPrefix)]>> :
                 n \in Names}}

\* loadConfig with the two files: the config it returns and the file it
\* leaves at CONFIG_PATH.  configPath is CONFIG_PATH, or the Application
\* Support file when only that one exists; when neither exists the default
\* is saved and returned.  The content is then read from CONFIG_PATH: with
\* only the Application Support file that read throws and the default is
\* returned.  A setting the file lacks ("") is taken from the default
loadConfigFrom(project, global) ==
  IF project = NoFile /\ global = NoFile
  THEN [config |-> DEFAULT_CONFIG, project |-> <<DEFAULT_CONFIG>>]
  ELSE IF project = NoFile
  THEN [config |-> DEFAULT_CONFIG, project |-> project]
  ELSE [config |-> [services |-> project[1].services,
                    logDir |-> IF project[1].logDir = "" THEN DEFAULT_CONFIG.logDir
                               ELSE project[1].logDir],
        project |-> project]

\* an instance of the tool enters addService with a service made from a
\* name: loadConfig
twoLoad(p) ==
  /\ procs[p].pc \in {"idle", "done"}
  /\ \E n \in Names :
       LET l == loadConfigFrom(pfile, afile)
       IN /\ pfile' = l.project
          /\ procs' = [procs EXCEPT ![p] =
               [pc |-> "loaded", config |-> l.config, res |-> "",
                service |-> <<[name |-> n,
                               identifier |-> generateIdentifier(n, identifierPrefix)]>>]]
  /\ UNCHANGED afile
  /\ UNCHANGED notTwo

\* the instance tests for an entry that exists, throws or pushes
twoPush(p) ==
  /\ procs[p].pc = "loaded"
  /\ procs' = [procs EXCEPT ![p] =
       IF addExists(procs[p].config.services, procs[p].service[1])
       THEN [@ EXCEPT !.pc = "done", !.res = "already exists"]
       ELSE [@ EXCEPT !.pc = "pushed",
                      !.config.services = Append(@, procs[p].service[1])]]
  /\ UNCHANGED <<pfile, afile>>
  /\ UNCHANGED notTwo

\* the instance saves its config: saveConfig writes CONFIG_PATH
twoSave(p) ==
  /\ procs[p].pc = "pushed"
  /\ pfile' = <<procs[p].config>>
  /\ procs' = [procs EXCEPT ![p] = [@ EXCEPT !.pc = "done", !.res = "ok"]]
  /\ UNCHANGED afile
  /\ UNCHANGED notTwo

\* the application saves its manifest to Application Support
appSave ==
  /\ \E manifest \in AppManifests : afile' = <<manifest>>
  /\ afile' # afile
  /\ UNCHANGED <<pfile, procs>>
  /\ UNCHANGED notTwo

\* no manifest at either place, both instances idle
InitTwo ==
  /\ pfile = NoFile /\ afile = NoFile
  /\ procs = [p \in {1, 2} |->
                [pc |-> "idle", config |-> DEFAULT_CONFIG, res |-> "", service |-> <<>>]]

InitExt ==
  /\ InitSave /\ InitGui /\ InitHealth /\ InitStatus /\ InitEscape /\ InitRender
  /\ InitList /\ InitMon /\ InitTwo

\* between two commands the manifest is edited by hand and a service
\* loses its command
batchEdit ==
  /\ bpc \in {"idle", "done"}
  /\ \E k \in 1..Len(bsvc) :
       /\ hasCommand(bsvc[k].rec)
       /\ bsvc' = [bsvc EXCEPT ![k].rec.cmd = 0]
  /\ UNCHANGED <<bcmd, bpc, bi, bres, lifeVars, writeVars, cfgVars, extVars>>

InitBatch ==
  /\ bsvc = <<>> /\ bcmd = "none" /\ bpc = "idle" /\ bi = 0 /\ bres = <<>>

InitCfg ==
  /\ mfile = NoFile /\ appSupport = FALSE /\ plists = {} /\ logfiles = {}
  /\ mop = "none" /\ marg = <<>> /\ mres = "" /\ mhit = <<>> /\ mverbs = FALSE

InitLife ==
  /\ rec = NoRec /\ src = NoFile /\ dst = NoFile
  /\ loaded = FALSE /\ keep = FALSE /\ pid = 0
  /\ op = "none" /\ report = "" /\ verbs = <<>> /\ writes = <<>> /\ err = NoErr
  /\ pre = [loaded |-> FALSE, running |-> FALSE, pid |-> 0]
  /\ opts = {} /\ before = <<>>

InitWrite ==
  /\ fdest = NoFile /\ ftemp = NoFile /\ wpc = "idle" /\ wcontent = <<>> /\ wold = NoFile

InitCore == InitLife /\ InitWrite /\ InitCfg /\ InitBatch

Init == InitCore /\ InitExt

\* a manifest of MaxBatch services, none of them installed
InitAll ==
  /\ InitLife /\ InitWrite /\ InitCfg /\ InitExt
  /\ bsvc \in [1..MaxBatch -> {Fresh(r) : r \in BatchRecords}]
  /\ bcmd = "none" /\ bpc = "idle" /\ bi = 0 /\ bres = <<>>

Next ==
  \/ addCommand
  \/ updateService
  \/ startCommand
  \/ stopCommand
  \/ restartCommand
  \/ removeCommand
  \/ processExit
  \/ keepAliveRespawn

Spec == Init /\ [][Next]_vars

NextWrite ==
  \/ wBegin
  \/ wOpen
  \/ wWrite
  \/ wRename
  \/ wFail
  \/ wCrash

\* the service under add, start and the removeCommand of commands/remove.js
NextDirect ==
  \/ addCommand
  \/ startCommand
  \/ removeCommandDirect
  \/ processExit

SpecDirect == Init /\ [][NextDirect]_vars

SpecWrite == Init /\ [][NextWrite]_vars

\* the manifest under the functions of config.js and the editor
NextManifest ==
  \/ addService
  \/ updateEntry
  \/ nameRemove
  \/ editManifest

SpecManifest == Init /\ [][NextManifest]_vars

\* the commands that take a service name, on a manifest built by add
NextNames ==
  \/ addService
  \/ nameCommand
  \/ nameRemove
  \/ guiSave

SpecNames == Init /\ [][NextNames]_vars

NextAll ==
  \/ batchBegin
  \/ batchStep
  \/ batchEnd
  \/ batchProcessExit
  \/ batchEdit

SpecAll == InitAll /\ [][NextAll]_vars

\* one instance saves the manifest while another one loads it
NextSave ==
  \/ saveBegin
  \/ saveOpen
  \/ saveWrite
  \/ loadConfigBeside

SpecSave == Init /\ [][NextSave]_vars

\* the menu bar application and changes made to its manifest from outside
NextGui ==
  \/ guiAdd
  \/ guiUpdate
  \/ guiRemove
  \/ guiLaunch
  \/ externalChange

SpecGui == Init /\ [][NextGui]_vars

\* sm status for one service
NextHealth ==
  \/ evaluate

\* the inputs of the call are drawn; everything else is as constructed
InitHealthInputs ==
  /\ InitCore /\ InitSave /\ InitGui /\ InitHealthAny
  /\ InitStatus /\ InitEscape /\ InitRender /\ InitList
  /\ InitMon /\ InitTwo

SpecHealth == InitHealthInputs /\ [][NextHealth]_vars

\* one status query
NextStatus ==
  \/ queryStatus

\* the inputs of the call are drawn; everything else is as constructed
InitStatusInputs ==
  /\ InitCore /\ InitSave /\ InitGui /\ InitHealth
  /\ InitStatusAny /\ InitEscape /\ InitRender /\ InitList
  /\ InitMon /\ InitTwo

SpecStatus == InitStatusInputs /\ [][NextStatus]_vars

\* a string is rendered into a descriptor and parsed back
NextEscape ==
  \/ escapeStep
  \/ parseStep

\* the inputs of the call are drawn; everything else is as constructed
InitEscapeInputs ==
  /\ InitCore /\ InitSave /\ InitGui /\ InitHealth
  /\ InitStatus /\ InitEscapeAny /\ InitRender /\ InitList
  /\ InitMon /\ InitTwo

SpecEscape == InitEscapeInputs /\ [][NextEscape]_vars

\* the renderer is called again and again on one service object
NextRender ==
  \/ renderCall
  \/ installRender
  \/ guiRender

\* the inputs of the call are drawn; everything else is as constructed
InitRenderInputs ==
  /\ InitCore /\ InitSave /\ InitGui /\ InitHealth
  /\ InitStatus /\ InitEscape /\ InitRenderAny /\ InitList
  /\ InitMon /\ InitTwo

SpecRender == InitRenderInputs /\ [][NextRender]_vars

\* one query of the job table
NextList ==
  \/ listManaged
  \/ listStatus
  \/ guiCheck

\* the inputs of the query are drawn; everything else is as constructed
InitListInputs ==
  /\ InitCore /\ InitSave /\ InitGui /\ InitHealth
  /\ InitStatus /\ InitEscape /\ InitRender /\ InitListAny
  /\ InitMon /\ InitTwo

SpecList == InitListInputs /\ [][NextList]_vars

\* the application writes a descriptor or its manifest
NextGuiWrite ==
  \/ gwBegin
  \/ gwTemp
  \/ gwRemove
  \/ gwMove
  \/ gwFail
  \/ gwCrash

SpecGuiWrite == Init /\ [][NextGuiWrite]_vars

\* two instances of the tool add services, the application saves
NextTwo ==
  \/ \E p \in {1, 2} : twoLoad(p)
  \/ \E p \in {1, 2} : twoPush(p)
  \/ \E p \in {1, 2} : twoSave(p)
  \/ appSave

SpecTwo == Init /\ [][NextTwo]_vars

\* the monitor and the application watch the services
NextMon ==
  \/ monitorStep
  \/ guiCheckAll
  \/ serviceChange

SpecMon == Init /\ [][NextMon]_vars

TypeOK ==
  /\ rec \in {NoRec} \cup {<<r>> : r \in Records}
  /\ src \in {NoFile} \cup {<<d>> : d \in Documents}
  /\ dst \in {NoFile} \cup {<<d>> : d \in Documents}
  /\ loaded \in BOOLEAN /\ pid \in 0..MaxPid /\ keep \in BOOLEAN
  /\ (~loaded => pid = 0 /\ ~keep)
  /\ opts \in SUBSET {"start", "keepConfig"}
  /\ before \in {<<>>} \cup {<<b>> : b \in [src : BOOLEAN, dst : BOOLEAN]}

\* ------------------------------------------------------------- properties
AllOk(log) == \A i \in 1..Len(log) : log[i][2]

\* the descriptor file rendered from the service's manifest entry
Current == <<generatePlistFromService(rec[1])>>

\* C1: at every instant of a descriptor write, and after a failure or a
\* kill at any point of it, the destination holds a whole descriptor: the
\* one it held when the write began or the one being written
C1_AtomicWrite ==
  /\ fdest \in CompleteFiles
  /\ fdest \in {wold, <<wcontent>>}

\* C1 witness: killed after the temporary file was written in full and
\* before the rename; the destination still holds the previous descriptor
C1_Witness ==
  /\ wpc = "crashed" /\ ftemp = <<wcontent>>
  /\ wold # NoFile /\ wold # <<wcontent>> /\ fdest = wold

\* C2: start on a running service reports "already running", makes no
\* control-plane call, writes nothing and leaves the pid as it was
C2_IdempotentStart ==
  (op = "start" /\ rec # NoRec /\ pre.running) =>
    /\ report = "already running"
    /\ verbs = <<>> /\ writes = <<>>
    /\ loaded /\ pid = pre.pid

\* C2 witness: a start was run on a running service
C2_Witness == op = "start" /\ pre.running /\ pre.pid # 0 /\ report = "already running"

\* what stopCommand prints when it did not fail and did not warn
StopSuccess == {"stopped and unloaded", "stopped", "was stopped, now unloaded"}

\* C3: when stop reports success for a loaded service, the label is no
\* longer loaded
C3_StopUnloads ==
  (op = "stop" /\ pre.loaded /\ report \in StopSuccess) => ~loaded

\* C4: the second of two stops in a row does not fail, and the label is
\* not loaded after the first and after the second
C4_StopTwice ==
  [][(op = "stop" /\ op' = "stop") => (report' # "failed" /\ ~loaded /\ ~loaded')]_vars

\* C5: a start that reports "started" leaves the label loaded with a live
\* process, from Unregistered and from Registered-Stopped alike
C5_StartLeavesRunning ==
  (op = "start" /\ report = "started") =>
    (~pre.running /\ loaded /\ pid # 0 /\ verbs # <<>> /\ verbs[Len(verbs)][2])

\* C5 witness: started from Unregistered, through the implicit install
C5_Witness ==
  op = "start" /\ report = "started" /\ ~pre.loaded /\ <<"bootstrap", TRUE>> = verbs[Len(verbs)]

\* C6: whenever both copies of the descriptor exist they are identical
C6_CopiesIdentical ==
  (src # NoFile /\ dst # NoFile) => src = dst

\* the last command went through generateAndWritePlist and did not fail
RegeneratedOk ==
  \/ op = "add" /\ report = "added and started"
  \/ op = "start" /\ ~pre.loaded /\ report \in {"started", "starting"}
  \/ op = "restart" /\ report \in {"restarted", "restarting"}

\* C7: the source copy is written before the active copy, a write is made
\* only when every write before it succeeded, and a command that
\* regenerates does not report success unless both writes succeeded
C7_BothWrites ==
  /\ \A i \in 1..Len(writes) :
       /\ writes[i][1] = (IF i % 2 = 1 THEN "src" ELSE "dst")
       /\ (i > 1 => writes[i - 1][2])
  /\ RegeneratedOk =>
       /\ Len(writes) >= 2 /\ Len(writes) % 2 = 0 /\ AllOk(writes)
       /\ src = Current /\ dst = Current

\* C7 witness: an install wrote both copies and reported success
C7_Witness ==
  /\ op = "start" /\ ~pre.loaded /\ report = "started"
  /\ writes = << <<"src", TRUE>>, <<"dst", TRUE>> >>

\* C8: after a start or restart that reports success both copies are the
\* rendering of the current manifest entry
C8_DescriptorsCurrent ==
  ((op = "start" /\ report = "started") \/ (op = "restart" /\ report = "restarted")) =>
    (src = Current /\ dst = Current)

\* the last command ran installService past its two writes
InstallRan ==
  /\ AllOk(writes)
  /\ \/ op = "add" /\ Len(writes) = 2
     \/ op = "start" /\ ~pre.loaded /\ Len(writes) = 2
     \/ op = "restart" /\ ~pre.loaded /\ Len(writes) = 4

\* C9: install tries bootstrap before any legacy verb; unload and load
\* run only after bootstrap failed; the error is thrown only after load
\* failed too, and names the failure of load
C9_InstallLadder ==
  InstallRan =>
    /\ Len(verbs) >= 2 /\ verbs[1][1] = "bootout" /\ verbs[2][1] = "bootstrap"
    /\ verbs[2][2] => (Len(verbs) = 2 /\ err = NoErr)
    /\ ~verbs[2][2] =>
         /\ Len(verbs) = 4 /\ verbs[3][1] = "unload" /\ verbs[4][1] = "load"
         /\ verbs[4][2] => (err = NoErr /\ loaded)
         /\ ~verbs[4][2] => (err = <<"Failed to load service", "load">> /\ report = "failed")

\* C9 witness: bootstrap failed and the legacy pair registered the label
C9_Witness ==
  /\ InstallRan /\ Len(verbs) = 4
  /\ verbs[2] = <<"bootstrap", FALSE>> /\ verbs[4] = <<"load", TRUE>> /\ err = NoErr

\* C10: a restart of a running service that reports "restarted" leaves
\* the label loaded with a live process, after kickstart or the fallback
C10_RestartLeavesRunning ==
  (op = "restart" /\ pre.running /\ report = "restarted") =>
    (loaded /\ pid # 0 /\ (verbs[1][2] \/ verbs[Len(verbs)][2]))

\* C10 witness: kickstart failed and the fallback restarted the service
C10_Witness ==
  /\ op = "restart" /\ pre.running /\ report = "restarted"
  /\ verbs[1] = <<"kickstart", FALSE>> /\ verbs[Len(verbs)] = <<"start", TRUE>>

\* what a remove prints when it did not fail
RemoveSuccess == {"removed completely", "uninstalled from launchd"}

\* C11: after a remove that reports success the label is not loaded and
\* neither directory holds a descriptor of the service
C11_RemoveUnregisters ==
  (op = "remove" /\ report \in RemoveSuccess) =>
    (~loaded /\ src = NoFile /\ dst = NoFile)

\* the uninstall step of the last remove failed: a control-plane call
\* returned nonzero, or a descriptor file could not be deleted
UninstallFailed ==
  \/ err # NoErr
  \/ \E i \in 1..Len(verbs) : ~verbs[i][2]

\* C12: a remove without --keep-config whose uninstall step failed has
\* removed the manifest entry all the same
C12_ManifestCleaned ==
  (op = "remove" /\ report # "not found" /\ "keepConfig" \notin opts /\ UninstallFailed) =>
    rec = NoRec

\* uninstallService was called for a service that is not loaded and has
\* no descriptor file in either directory
UninstallOfAbsent ==
  /\ op = "remove" /\ report # "not found"
  /\ before # <<>>
  /\ ~pre.loaded /\ ~before[1].src /\ ~before[1].dst

\* C13: uninstall of an absent service throws nothing, the command goes on
\* to report success, and both directories are still without a descriptor
C13_UninstallAbsent ==
  UninstallOfAbsent =>
    /\ err = NoErr /\ report \in RemoveSuccess
    /\ src = NoFile /\ dst = NoFile /\ ~loaded

\* C13 witness: bootout, stop and unload all returned nonzero for the
\* absent label and the remove succeeded
C13_Witness ==
  /\ UninstallOfAbsent /\ report = "removed completely"
  /\ verbs = << <<"bootout", FALSE>>, <<"stop", FALSE>>, <<"unload", FALSE>> >>

\* the supervisor and both descriptor directories are as they were, and
\* the command made no control-plane call and no descriptor write
SupervisorUntouched ==
  /\ UNCHANGED <<src, dst, loaded, keep, pid>>
  /\ verbs' = <<>> /\ writes' = <<>>

\* C14 as stated: no add touches the supervisor or a descriptor file
C14_AddOnlyManifest == [][op' = "add" => SupervisorUntouched]_vars

\* C14 amended: an add without --start touches neither the supervisor nor
\* a descriptor file, and when it succeeds the manifest holds the new entry
C14_AddWithoutStart ==
  [][(op' = "add" /\ "start" \notin opts') =>
       /\ SupervisorUntouched
       /\ report' = "added to configuration" => (rec = NoRec /\ rec' # NoRec)]_vars

\* C14 witness: a service was added without --start; it is in the
\* manifest, the label is not loaded and no descriptor exists
C14_Witness ==
  /\ op = "add" /\ opts = {} /\ report = "added to configuration"
  /\ rec # NoRec /\ ~loaded /\ src = NoFile /\ dst = NoFile

\* the entries of the manifest file
Services == IF mfile = NoFile THEN <<>> ELSE mfile[1].services

\* C15: no two entries of the manifest have the same name in lower case,
\* and no two have the same identifier
C15_UniqueEntries ==
  \A i, j \in 1..Len(Services) :
    i # j => /\ toLowerCase(Services[i].name) # toLowerCase(Services[j].name)
             /\ Services[i].identifier # Services[j].identifier

\* an entry of the manifest has the name or the identifier of the service
Collides(service) ==
  \E i \in 1..Len(Services) :
    \/ toLowerCase(Services[i].name) = toLowerCase(service.name)
    \/ Services[i].identifier = service.identifier

\* C16: an add of a service that collides with an entry reports
\* "already exists" and leaves the manifest file as it was
C16_CollidingAdd ==
  [][(mop' = "add" /\ Collides(mhit'[1])) =>
       (mres' = "already exists" /\ mfile' = mfile)]_vars

\* C16 witness: an add with a new name and the identifier of an entry was
\* rejected, and the manifest still has the layout the user gave it
C16_Witness ==
  /\ mop = "add" /\ mres = "already exists" /\ mfile[1].fmt = "hand"
  /\ \E i \in 1..Len(Services) :
       /\ Services[i].identifier = mhit[1].identifier
       /\ toLowerCase(Services[i].name) # toLowerCase(mhit[1].name)
  /\ \A i \in 1..Len(Services) : toLowerCase(Services[i].name) # toLowerCase(mhit[1].name)

\* C17 as stated: a command whose name does not resolve makes no
\* control-plane call and leaves manifest, descriptors and logs as they were
C17_NotFoundNoEffect ==
  [][mres' = "not found" =>
       (~mverbs' /\ UNCHANGED <<mfile, plists, logfiles>>)]_vars

\* C17 amended: such a command makes no control-plane call and leaves
\* descriptors, logs and an existing manifest as they were; when there is
\* no manifest at either place it leaves the default manifest behind
C17_NotFoundOnlyDefault ==
  [][mres' = "not found" =>
       /\ ~mverbs' /\ UNCHANGED <<plists, logfiles>>
       /\ IF mfile = NoFile /\ ~appSupport
          THEN mfile' = <<[fmt |-> "tool", services |-> <<>>]>>
          ELSE mfile' = mfile]_vars

\* C17 witness: a remove of a name that does not resolve, with an entry in
\* the manifest and descriptor and log files on disk
C17_Witness ==
  /\ mop = "remove" /\ mres = "not found"
  /\ Services # <<>> /\ plists # {} /\ logfiles # {}

\* C18: when an entry has the given name in lower case, the name resolves
\* to an entry with that name
C18_NameBeforeIdentifier ==
  [][(/\ mop' \in {"start", "stop", "remove"}
      /\ \E i \in 1..Len(Services) : toLowerCase(Services[i].name) = toLowerCase(marg')) =>
       (mhit' # <<>> /\ toLowerCase(mhit'[1].name) = toLowerCase(marg'))]_vars

\* C19: a command with --all never raises; while it loops it has one
\* report for each service it passed, in order; when it returns it has one
\* report for every service, whatever failed on the way
C19_BatchGoesOn ==
  /\ bpc # "raised"
  /\ bpc = "loop" => Len(bres) = bi - 1
  /\ bpc = "done" => Len(bres) = Len(bsvc)

\* C19 witness: start --all returned; the first service has no command and
\* failed, the second one was started after it
C19_Witness ==
  /\ bpc = "done" /\ bcmd = "start" /\ Len(bsvc) >= 2
  /\ ~hasCommand(bsvc[1].rec) /\ bres[1] = "failed"
  /\ bres[2] = "started" /\ bsvc[2].loaded /\ bsvc[2].pid # 0

\* the last command tried to unload the label and no bootout and no
\* unload returned zero: its fallbacks are exhausted
UnloadExhausted ==
  /\ verbs # <<>>
  /\ \A i \in 1..Len(verbs) : verbs[i][1] \in {"bootout", "unload"} => ~verbs[i][2]

\* C20: a start, restart or add whose last control-plane call failed
\* reports the failure; a stop or remove of a loaded label whose unloading
\* verbs all failed does not report success
C20_FailuresSurfaced ==
  /\ (op \in {"start", "restart", "add"} /\ verbs # <<>> /\ ~verbs[Len(verbs)][2]) =>
       report = "failed"
  /\ (op \in {"stop", "remove"} /\ pre.loaded /\ UnloadExhausted) =>
       report \notin (StopSuccess \cup RemoveSuccess)

\* how often the last command issued a control-plane verb
Issued(v) == Cardinality({i \in 1..Len(verbs) : verbs[i][1] = v})

\* the last command's restartService fell back to startService
RestartFellBack == op = "restart" /\ verbs # <<>> /\ verbs[1] = <<"kickstart", FALSE>>

WholeManifests == {JSONstringify(l) : l \in ManifestLists}

\* C22: whatever an instance of the tool reads from the manifest while
\* another instance saves it is a whole manifest, and it parses
C22_NoPartialManifest ==
  sseen # <<>> => (sseen[1].content \in WholeManifests /\ sseen[1].parsed)

\* the entry is in the manifest file
InFile(e, file) == file # NoFile /\ \E i \in 1..Len(file[1]) : file[1][i] = e

\* C23: an add, update or remove of the application that follows a change
\* made to the manifest from outside, and saves, leaves every entry with
\* another id as it found it in the file: what was there is still there,
\* what was not there is still not there
C23_ExternalChangeKept ==
  [][(gop.op = "external" /\ gop'.op \in {"add", "update", "remove"} /\ gop'.saved) =>
       \A e \in GuiEntries :
         e.id # gop'.id => (InFile(e, gfile) <=> InFile(e, gfile'))]_vars

\* the last evaluation was of a loaded, running service and did not come
\* out as starting or unhealthy
RunningAndWell ==
  /\ hres # <<>> /\ hlaunchd.loaded /\ hlaunchd.running
  /\ hres[1].status \notin {"starting", "unhealthy"}

\* a check of the last evaluation passed
SomeCheckPassed ==
  \/ hres[1].portCheck # <<>> /\ hres[1].portCheck[1].listening
  \/ hres[1].httpCheck # <<>> /\ hres[1].httpCheck[1].healthy

\* C24: such a service is healthy only when a configured check passed, and
\* is running when it has no port and no health URL
C24_HealthyNeedsCheck ==
  RunningAndWell =>
    /\ hres[1].status = "healthy" => SomeCheckPassed
    /\ (hsvc.port = 0 /\ hsvc.healthCheck = "") => hres[1].status = "running"

\* the probe of the port did not find a listener
PortProbeFailed == hsvc.port # 0 /\ hprobe.lsof # "line"

\* the probe of the URL got no answer, or one of 500 and above
HttpProbeFailed ==
  /\ hsvc.healthCheck # ""
  /\ \/ hprobe.fetch.threw = "" /\ hprobe.fetch.status >= 500
     \/ hprobe.fetch.threw # "" /\ hsvc.healthCheck = "http"
     \/ /\ hprobe.fetch.threw # "" /\ hsvc.healthCheck = "https"
        /\ (hprobe.curl.threw \/ hprobe.curl.status = 0 \/ hprobe.curl.status >= 500)

\* C25: no evaluation throws; it returns a record in which a probe that
\* failed is a negative check, and a probe that was not configured is null
C25_ProbesNeverThrow ==
  /\ ~hthrew
  /\ hres # <<>> =>
       /\ PortProbeFailed => (hres[1].portCheck # <<>> /\ ~hres[1].portCheck[1].listening)
       /\ HttpProbeFailed => (hres[1].httpCheck # <<>> /\ ~hres[1].httpCheck[1].healthy)
       /\ hsvc.port = 0 => hres[1].portCheck = <<>>
       /\ hsvc.healthCheck = "" => hres[1].httpCheck = <<>>

\* C25 witness: lsof ran into its timeout, fetch was rejected and curl
\* failed for a running service; the record has two negative checks
C25_Witness ==
  /\ hres # <<>> /\ hlaunchd.running
  /\ hsvc = [port |-> 1, healthCheck |-> "https"]
  /\ hprobe = [lsof |-> "timeout", fetch |-> [threw |-> "rejected", status |-> 0],
               curl |-> [threw |-> TRUE, status |-> 0]]
  /\ hres[1].portCheck = <<[listening |-> FALSE]>>
  /\ hres[1].httpCheck = <<[healthy |-> FALSE, status |-> <<>>]>>
  /\ hres[1].status = "starting"

\* C26: a status query never throws, and for an identifier launchd does
\* not know it returns not loaded, not running, no pid, no exit status
C26_UnknownIsNotLoaded ==
  /\ ~qthrew
  /\ (qres # <<>> /\ qid \notin DOMAIN jobs) =>
       qres[1] = [loaded |-> FALSE, running |-> FALSE, pid |-> <<>>, exitStatus |-> <<>>]

\* C26 witness: launchd has a running job a, the query was for z
C26_Witness ==
  /\ qres # <<>> /\ qid = "z" /\ ~qres[1].loaded
  /\ "a" \in DOMAIN jobs /\ jobs["a"].pid # 0

\* C30: the string parsed back from the descriptor is the string that was
\* escaped into it
C30_EscapeRoundTrip == xpc = "parsed" => xdec = xin

\* C27: a call leaves the service as it was read from the manifest, and
\* what it returns or throws is what a call with that service and the same
\* settings returns or throws, whatever was rendered before
C27_RenderPure ==
  rcalls > 0 =>
    /\ robj = rval
    /\ rout = generatePlistFull(rval, rset).doc
    /\ rerr = generatePlistFull(rval, rset).threw

\* the argv of the service as read from the manifest
Argv == IF rval.command.kind = "array" THEN rval.command.val ELSE splitWords(rval.command.val)

\* C28: rendering a service without identifier throws the identifier
\* error; rendering one with identifier whose command is absent or has an
\* empty argv throws the command error
C28_ValidationErrors ==
  rcalls > 0 =>
    /\ rval.identifier = <<>> => rerr = "Service must have an identifier"
    /\ (rval.identifier # <<>> /\ Argv = <<>>) => rerr = "Service must have a command"

\* the loop is at a service whose record has no command and is about to
\* render it: restart always renders, start renders a label that is not
\* loaded
RenderFails ==
  /\ bpc = "loop" /\ bi <= Len(bsvc)
  /\ bsvc[bi].rec.cmd = 0
  /\ (bcmd = "restart" \/ ~bsvc[bi].loaded)

RenderedPath ==
  LET env == rout[1].EnvironmentVariables
  IN {env[i][2] : i \in {j \in 1..Len(env) : env[j][1] = <<"P">>}}

ManifestPath ==
  IF rval.env = <<>> THEN {}
  ELSE {rval.env[1][i][2] : i \in {j \in 1..Len(rval.env[1]) : rval.env[1][j][1] = <<"P">>}}

\* C31: the first rendering of a service that defines PATH has that value
\* for PATH; of a service that defines none it has the PATH made from the
\* directory of the node binary when settings.nodePath is set, and no PATH
\* otherwise
C31_ExplicitPathWins ==
  (rcalls = 1 /\ rerr = "") =>
    IF ManifestPath # {}
    THEN RenderedPath = {escapeXml(v) : v \in ManifestPath}
    ELSE RenderedPath =
           IF rset.nodePath = <<>> THEN {}
           ELSE {dirname(rset.nodePath) \o <<":/usr/local/bin:/usr/bin:/bin">>}

C33_NullPathOmitted ==
  (rcalls > 0 /\ rvia = "install" /\ rval.path = <<>>
     /\ rval.identifier # <<>> /\ ~commandMissing(rval.command)) =>
    /\ rerr = ""
    /\ rout # <<>> /\ rout[1].WorkingDirectory = <<>>

\* C37: for a service both have rendered, with whatever settings, the
\* document of the application is the document of the command line tool
C37_RenderersAgree ==
  (rcalls > 0 /\ rerr = "" /\ rswift # <<>>) => rswift = rout

\* the labels of the job table that start with the prefix
StartWithPrefix ==
  {l \in DOMAIN ljobs : Len(l) >= Len(lprefix) /\ SubSeq(l, 1, Len(lprefix)) = lprefix}

\* C34: a listing that launchctl answered has an entry for each job whose
\* label starts with the prefix, and for no other job
C34_ListedByPrefix ==
  (lq.op = "list" /\ lq.ok) =>
    {lq.res[i].identifier : i \in 1..Len(lq.res)} = StartWithPrefix

\* C40: the status of one identifier is running exactly with a pid, and
\* then loaded; an entry of the listing is running exactly with a pid; the
\* application has a service running only with a pid
C40_RunningHasPid ==
  /\ lq.op = "status" =>
       /\ lq.res.running <=> lq.res.pid # <<>>
       /\ lq.res.running => lq.res.loaded
  /\ lq.op = "list" =>
       \A i \in 1..Len(lq.res) : lq.res[i].running <=> lq.res[i].pid # <<>>
  /\ lq.op = "check" =>
       (lq.res.status = "running" => lq.res.pid # <<>>)

\* C35 as stated: a check of the monitor sends a down alert and restarts
\* the service exactly when it takes the service, whichever it is, from a
\* state other than stopped to stopped, and sends a restored alert only
\* when it takes it from stopped to running
C35_EveryFallAlerted ==
  [][mpc' # mpc =>
       LET svc == Monitored[mpc]
           fell == mstate[svc] # "stopped" /\ mstate'[svc] = "stopped"
       IN /\ mlast'.alert = "down" <=> fell
          /\ mlast'.restart <=> fell
          /\ mlast'.alert = "restored" =>
               (mstate[svc] = "stopped" /\ mstate'[svc] = "running")]_vars

\* C35 amended: a check of the monitor sends a down alert only when it takes the
\* service from a state other than stopped to stopped, restarts only with
\* a down alert, and sends a restored alert only when it takes the service
\* from stopped to running; for the launchd service every such fall is
\* alerted and restarted once.  The application notifies only when it
\* takes the service from running to stopped
C35_AlertOnChange ==
  [][/\ mpc' # mpc =>
          LET svc == Monitored[mpc]
              fell == mstate[svc] # "stopped" /\ mstate'[svc] = "stopped"
          IN /\ mlast'.alert = "down" => fell
             /\ mlast'.restart => mlast'.alert = "down"
             /\ mlast'.alert = "restored" =>
                  (mstate[svc] = "stopped" /\ mstate'[svc] = "running")
             /\ (svc = "clawdbot" /\ fell) => (mlast'.alert = "down" /\ mlast'.restart)
     /\ gmon'.notified /\ gmon' # gmon =>
          (gmon.last = "running" /\ gmon'.last = "stopped")]_vars

\* C35 witness: the monitor alerted that clawdbot was down and restarted
\* it, and its last check, a later one, found it still down and did
\* nothing
C35_Witness ==
  /\ mlast = [svc |-> "clawdbot", alert |-> "", restart |-> FALSE]
  /\ mstate["clawdbot"] = "stopped" /\ "clawdbot" \notin mup /\ mpc = 2

\* C36: at every instant of a write of the application, and after a
\* failure or a kill at any point of it, the destination holds a whole
\* file, the one it held when the write began or the one being written,
\* and is not missing when there was a file
C36_GuiWriteAtomic ==
  /\ fdest \in CompleteFiles
  /\ wold # NoFile => fdest # NoFile
  /\ wpc # "idle" => fdest \in {wold, <<wcontent>>}

\* two services that addService would not take for the same
Distinct(s, t) ==
  /\ toLowerCase(s.name) # toLowerCase(t.name)
  /\ s.identifier # t.identifier

\* the manifest at CONFIG_PATH has the service
InManifest(service) ==
  pfile # NoFile /\ \E i \in 1..Len(pfile[1].services) : pfile[1].services[i] = service

\* C38: when both instances have added, each a service the other's is
\* distinct from, the manifest has both services, and no two entries of
\* the manifest are the same to addService
C38_NoLostUpdate ==
  /\ (procs[1].res = "ok" /\ procs[2].res = "ok"
        /\ Distinct(procs[1].service[1], procs[2].service[1])) =>
       (InManifest(procs[1].service[1]) /\ InManifest(procs[2].service[1]))
  /\ pfile # NoFile =>
       \A i, j \in 1..Len(pfile[1].services) :
         i # j => Distinct(pfile[1].services[i], pfile[1].services[j])

\* C39: a loadConfig that finds no manifest at CONFIG_PATH and one in
\* Application Support returns the services and settings of the latter
C39_LoadsSelectedFile ==
  [][\A p \in {1, 2} :
       (procs'[p].pc = "loaded" /\ procs[p].pc # "loaded"
          /\ pfile = NoFile /\ afile # NoFile) =>
         /\ procs'[p].config.services = afile[1].services
         /\ procs'[p].config.logDir = afile[1].logDir]_vars

====
